---- MODULE Spec2Model ----
(***************************************************************************)
(* A model of the inference pipeline of express-swaggerify.                *)
(*                                                                         *)
(* Source text is modelled as a sequence of lexemes (strings): every       *)
(* lexeme is a piece of text that the regular expressions and character    *)
(* scans of the code treat as a unit ("(" and ")" are single characters,   *)
(* " " and "\n" are single white-space characters, an identifier is one    *)
(* lexeme).  A JavaScript string value is likewise a sequence of pieces.   *)
(* Positions are 1-based here and 0-based in the code.                     *)
(***************************************************************************)
EXTENDS Integers, Sequences, FiniteSets, TLC

VARIABLES
    \* extractRoutes
    stmts,          \* ghost: the statements the routing file was written from
    fileContent,    \* the routing file's text
    basePath,       \* the base path handed to extractRoutes
    lastIndex,      \* routeRegex.lastIndex: where the next exec starts
    routes,         \* the RouteInfo[] being built
    pc,             \* "loop" while the while-loop runs, "done" after return
    \* path-parameter rewrite
    rawPath,        \* a route path literal
    curPath,        \* the path after the rewrites applied so far
    prevPath,       \* the path before the last rewrite
    applied,        \* how many times the rewrite has been applied
    \* analyzeControllerMethod
    lines,          \* controllerContent.split('\n'), each line by what the scan reads
    methodName,     \* the method asked for
    lineNo,         \* the loop index i (1-based)
    inMethod,
    braceCount,
    statusCodes,
    requestBodyFields,
    cpc,            \* "scan" while the for-loop runs, "done" after return
    \* loadTypesFromDirectory / typeToJsonSchema
    typeDecls,      \* the interface declarations, in source order
    schemas,        \* the registry: extracted schemas by type name
    declIdx,        \* the declaration the second pass visits next
    requests,       \* ghost: the schemas handed out for references by name
    maxDepth,       \* ghost: the deepest nesting of typeToJsonSchema calls so far
    tpc,            \* "pass" during the second pass, "done" after return
    \* cleanJsonSchema
    rawSchema,      \* the JSON schema handed to cleanJsonSchema
    cleaned,        \* the schema it returns
    kpc,            \* "call" before the call, "done" after return
    \* generateSwaggerEndpoint / loadJoiSchemaFromValidator
    route,          \* the RouteInfo
    controllerInfo, \* the ControllerInfo, <<>> when there is none
    smartDefaults,  \* options.smartDefaults !== false
    epc,            \* where the generation of the endpoint stands
    codes,          \* the local statusCodes
    validatorModule,\* what require(modulePath) returned
    joiSchema,      \* the member found in the validator module
    joiSchemaObj,   \* what loadJoiSchemaFromValidator returned, <<>> for null
    joiFailure,     \* ghost: the failure the loader met, "none" if none
    raised,         \* an exception left loadJoiSchemaFromValidator
    requestSchema,  \* the request schema written into the endpoint
    responses,      \* the response entries written into the endpoint
    \* generateExampleFromSchema
    schemaObj,      \* the schema an example is synthesized for
    extractedSchemas, \* the registry of named schemas
    example,        \* the example returned
    deepest,        \* ghost: the deepest level at which a schema was examined
    xpc,            \* "call" before the call, "done" after return
    \* swaggerifyRoutes / generateSwaggerDocs
    routesDir,      \* ghost: the route files of the directory, by file name
    routeFiles,     \* the file names in the order glob returned them
    fileIdx,        \* the position of the for-loop over routeFiles
    allEndpoints,   \* the endpoint strings collected so far
    endpointObjects,\* the endpoints swaggerifyRoutes returned
    paths,          \* the paths object of the document
    dpc,            \* where the run stands
    fieldTypeInference, \* the option of that name
    \* concurrent loadJoiSchemaFromValidator calls
    existingFiles,  \* ghost: the candidate validator files that exist
    tsNodeAvailable,\* require('ts-node') returns the module
    calls,          \* the calls in progress: position, arguments, file found
    tsNodeRegistered, \* global.__tsNodeRegistered
    registrations,  \* ghost: how many tsNode.register calls have returned
    \* parseRouterMounts and the base path of a route file
    indexFile,      \* ghost: the mount statements of index.ts, or its absence
    routerMounts,   \* the Map parseRouterMounts returns
    mountFile,      \* the name of the route file being processed
    routeBasePath,  \* the base path used for the file
    mpc             \* where the computation stands

routeVars == <<stmts, fileContent, basePath, lastIndex, routes, pc>>
pathVars == <<rawPath, curPath, prevPath, applied>>
ctrlVars == <<lines, methodName, lineNo, inMethod, braceCount, statusCodes,
              requestBodyFields, cpc>>
typeVars == <<typeDecls, schemas, declIdx, requests, maxDepth, tpc>>
cleanVars == <<rawSchema, cleaned, kpc>>

earlierVars == <<routeVars, pathVars, ctrlVars, typeVars>>
endpointVars == <<route, controllerInfo, smartDefaults, epc, codes, validatorModule,
                  joiSchema, joiSchemaObj, joiFailure, raised, requestSchema, responses>>
exampleVars == <<schemaObj, extractedSchemas, example, deepest, xpc>>
driverVars == <<routesDir, routeFiles, fileIdx, allEndpoints, endpointObjects, paths, dpc,
               fieldTypeInference>>
loaderVars == <<existingFiles, tsNodeAvailable, calls, tsNodeRegistered, registrations>>
mountVars == <<indexFile, routerMounts, mountFile, routeBasePath, mpc>>
lastVars == <<exampleVars, driverVars, loaderVars, mountVars>>
laterVars == <<cleanVars, endpointVars, lastVars>>

(***************************************************************************)
(* Bounds of the model.                                                    *)
(***************************************************************************)
MaxStmts == 2       \* statements in a routing file
MaxPathLen == 4     \* characters in a route path literal (rewrite check)
MaxApply == 2       \* applications of the rewrite to one path
MaxMethods == 2     \* methods in a controller file
MaxTypes == 3       \* interface declarations in the types directory
MaxAliases == 2     \* alias declarations in the types directory
MaxSchemaDepth == 2 \* nesting of a JSON schema handed to cleanJsonSchema

(***************************************************************************)
(* Lexemes.                                                                *)
(***************************************************************************)
Undefined == <<"#undefined">>

WhiteSpace == {" ", "\n"}

\* router.<verb> : the alternation (get|post|put|patch|delete) of routeRegex
VerbOf(tok) ==
    CASE tok = "router.get" -> "get"
      [] tok = "router.post" -> "post"
      [] tok = "router.put" -> "put"
      [] tok = "router.patch" -> "patch"
      [] tok = "router.delete" -> "delete"
      [] OTHER -> "none"

\* match[1].toUpperCase() and method.toLowerCase() on the five verbs
VerbUpper(v) ==
    CASE v = "get" -> "GET"
      [] v = "post" -> "POST"
      [] v = "put" -> "PUT"
      [] v = "patch" -> "PATCH"
      [] OTHER -> "DELETE"

MethodLower(m) ==
    CASE m = "GET" -> "get"
      [] m = "POST" -> "post"
      [] m = "PUT" -> "put"
      [] m = "PATCH" -> "patch"
      [] OTHER -> "delete"

\* A lexeme of the form obj.meth written without white space
DottedTokens == {"router.get", "router.post", "router.put", "router.patch",
                 "router.delete", "router.use"}

DottedObj(tok) == "router"

DottedMeth(tok) ==
    IF tok = "router.use" THEN "use" ELSE VerbOf(tok)

\* The quoted path literals ['"`]([^'"`]+)['"`] of the modelled files and their
\* characters
PathLits == {"'/login'", "'/users/:id'"}

PathOf(lit) ==
    IF lit = "'/login'" THEN <<"/", "l", "o", "g", "i", "n">>
    ELSE <<"/", "u", "s", "e", "r", "s", "/", ":", "i", "d">>

\* [A-Za-z_$][A-Za-z0-9_$]* : the identifiers of the modelled files
Idents == {"authController", "login", "register", "authSchemas", "validate",
           "authenticate", "requireAdmin", "bind", "req", "res", "json",
           "body", "send", "pick", "fields", "loginHandler", "authRoutes"}

\* String.toUpperCase / toLowerCase
LowerLetters == <<"a", "b", "c", "d", "e", "f", "g", "h", "i", "j", "k", "l", "m",
                  "n", "o", "p", "q", "r", "s", "t", "u", "v", "w", "x", "y", "z">>
UpperLetters == <<"A", "B", "C", "D", "E", "F", "G", "H", "I", "J", "K", "L", "M",
                  "N", "O", "P", "Q", "R", "S", "T", "U", "V", "W", "X", "Y", "Z">>

ToUpper(c) ==
    IF \E k \in 1..Len(LowerLetters) : LowerLetters[k] = c
    THEN UpperLetters[CHOOSE k \in 1..Len(LowerLetters) : LowerLetters[k] = c]
    ELSE c

ToLower(c) ==
    IF \E k \in 1..Len(UpperLetters) : UpperLetters[k] = c
    THEN LowerLetters[CHOOSE k \in 1..Len(UpperLetters) : UpperLetters[k] = c]
    ELSE c

\* \w of /:\w+/ and [a-zA-Z0-9] of generateOperationId
WordChars ==
    {LowerLetters[k] : k \in 1..Len(LowerLetters)} \cup
    {UpperLetters[k] : k \in 1..Len(UpperLetters)} \cup {"_", "0"}

AlnumChars == WordChars \ {"_"}

(***************************************************************************)
(* Sequence helpers.                                                       *)
(***************************************************************************)
RECURSIVE SkipWs(_, _)
\* \s* : the first position at or after i that holds no white space
SkipWs(s, i) ==
    IF i <= Len(s) /\ s[i] \in WhiteSpace THEN SkipWs(s, i + 1) ELSE i

At(s, i) == IF i >= 1 /\ i <= Len(s) THEN s[i] ELSE "#eof"

\* String.prototype.includes / indexOf for a literal that is a run of lexemes;
\* 0 when the literal does not occur
IndexOfSeq(s, lit) ==
    LET hits == {i \in 1..(Len(s) - Len(lit) + 1) :
                    \A k \in 1..Len(lit) : s[i + k - 1] = lit[k]}
    IN IF hits = {} THEN 0 ELSE CHOOSE i \in hits : \A j \in hits : i <= j

IncludesSeq(s, lit) == IndexOfSeq(s, lit) # 0

\* String.prototype.includes for a word: some lexeme contains the word
Includes(s, word) == \E i \in 1..Len(s) : s[i] = word

(***************************************************************************)
(* The path-parameter rewrite                                              *)
(*   routePath.replace(/:\w+/g, match => `{${match.substring(1)}}`)        *)
(***************************************************************************)
RECURSIVE WordRunEnd(_, _)
\* the last position of the run of \w characters that starts at i
WordRunEnd(p, i) ==
    IF i + 1 <= Len(p) /\ p[i + 1] \in WordChars THEN WordRunEnd(p, i + 1) ELSE i

\* A mutated replacement: the whole match, colon included, is put in braces
BraceMatchKeepColon(p, i, e) == <<"{">> \o SubSeq(p, i, e) \o <<"}">>

\* `{${match.substring(1)}}` for the match p[i..e]
BraceMatch(p, i, e) == <<"{">> \o SubSeq(p, i + 1, e) \o <<"}">>

RECURSIVE RewriteFrom(_, _)
RewriteFrom(p, i) ==
    IF i > Len(p) THEN <<>>
    ELSE IF p[i] = ":" /\ i + 1 <= Len(p) /\ p[i + 1] \in WordChars
         THEN LET e == WordRunEnd(p, i + 1)
              IN BraceMatch(p, i, e) \o RewriteFrom(p, e + 1)
         ELSE <<p[i]>> \o RewriteFrom(p, i + 1)

RewritePathParams(p) == RewriteFrom(p, 1)

(***************************************************************************)
(* extractRoutes: the registration regex                                   *)
(*   /router\.(get|post|put|patch|delete)\s*\(\s*['"`]([^'"`]+)['"`]/g     *)
(***************************************************************************)
\* A mutated regex without the \s* after the opening parenthesis
MatchEndNoSpace(s, i) ==
    IF VerbOf(At(s, i)) = "none" THEN 0
    ELSE LET j == SkipWs(s, i + 1)
         IN IF At(s, j) = "(" /\ At(s, j + 1) \in PathLits THEN j + 1 ELSE 0

\* The position of the last lexeme of a match that starts at i, 0 when the
\* regex does not match at i
MatchEnd(s, i) ==
    IF VerbOf(At(s, i)) = "none" THEN 0
    ELSE LET j == SkipWs(s, i + 1)
         IN IF At(s, j) # "(" THEN 0
            ELSE LET k == SkipWs(s, j + 1)
                 IN IF At(s, k) \in PathLits THEN k ELSE 0

\* routeRegex.exec(fileContent): the first match at or after lastIndex
\* (match.index), 0 for null
ExecIndex(s, from) ==
    LET hits == {i \in from..Len(s) : MatchEnd(s, i) # 0}
    IN IF hits = {} THEN 0 ELSE CHOOSE i \in hits : \A j \in hits : i <= j

(***************************************************************************)
(* extractRoutes: the scan for the parenthesis that closes router.METHOD(  *)
(***************************************************************************)
RECURSIVE ScanClose(_, _, _)
\* the for-loop from position i with the given parenCount; endPos keeps its
\* default fileContent.length when the loop ends without a break
ScanClose(s, i, parenCount) ==
    IF i > Len(s) THEN Len(s) + 1
    ELSE IF s[i] = "(" THEN ScanClose(s, i + 1, parenCount + 1)
    ELSE IF s[i] = ")"
         THEN IF parenCount - 1 = 0 THEN i
              ELSE ScanClose(s, i + 1, parenCount - 1)
    ELSE ScanClose(s, i + 1, parenCount)

\* fileContent.substring(startPos, endPos)
MiddlewareAndHandler(s, startPos) ==
    SubSeq(s, startPos, ScanClose(s, startPos, 1) - 1)

(***************************************************************************)
(* extractRoutes: the validate(...) scan                                   *)
(***************************************************************************)
\* A mutated scan, the /validate\(([^)]+)\)/ of the older parser: the first
\* closing parenthesis ends the schema reference
ValidateEndFirstClose(mh, i, parenCount) ==
    LET hits == {j \in i..Len(mh) : mh[j] = ")"}
    IN IF hits = {} THEN 0 ELSE CHOOSE j \in hits : \A k \in hits : j <= k

RECURSIVE ValidateEnd(_, _, _)
\* the for-loop from position i; 0 when it ends without a break
ValidateEnd(mh, i, parenCount) ==
    IF i > Len(mh) THEN 0
    ELSE IF mh[i] = "(" THEN ValidateEnd(mh, i + 1, parenCount + 1)
    ELSE IF mh[i] = ")"
         THEN IF parenCount = 0 THEN i
              ELSE ValidateEnd(mh, i + 1, parenCount - 1)
    ELSE ValidateEnd(mh, i + 1, parenCount)

RECURSIVE CollapseWs(_, _)
\* .replace(/\s+/g, ' ') from position i
CollapseWs(t, i) ==
    IF i > Len(t) THEN <<>>
    ELSE IF t[i] \in WhiteSpace
         THEN <<" ">> \o CollapseWs(t, SkipWs(t, i))
         ELSE <<t[i]>> \o CollapseWs(t, i + 1)

\* .trim()
Trim(t) ==
    LET keep == {i \in 1..Len(t) : t[i] \notin WhiteSpace}
    IN IF keep = {} THEN <<>>
       ELSE SubSeq(t, CHOOSE i \in keep : \A j \in keep : i <= j,
                      CHOOSE i \in keep : \A j \in keep : i >= j)

\* the schemaRef stored in validatorSchema, Undefined when none is stored
ValidatorSchema(mh) ==
    IF ~Includes(mh, "validate") THEN Undefined
    ELSE LET validateStart == IndexOfSeq(mh, <<"validate", "(">>)
         IN IF validateStart = 0 THEN Undefined
            ELSE LET start == validateStart + 2
                     found == ValidateEnd(mh, start, 0)
                     end == IF found = 0 THEN start ELSE found
                 IN IF end > start
                    THEN CollapseWs(Trim(SubSeq(mh, start, end - 1)), 1)
                    ELSE Undefined

\* the middleware list
Middleware(mh) ==
    (IF Includes(mh, "authenticate") THEN << <<"authenticate">> >> ELSE <<>>)
    \o (IF Includes(mh, "requireAdmin") THEN << <<"requireAdmin">> >> ELSE <<>>)
    \o (IF ValidatorSchema(mh) # Undefined
        THEN << <<"validate", "(">> \o ValidatorSchema(mh) \o <<")">> >>
        ELSE <<>>)

\* the test with the first of the two markers only
HasAuthenticate(middleware) ==
    \E k \in 1..Len(middleware) : Includes(middleware[k], "authenticate")

\* middleware.some(m => m.includes('authenticate') || m.includes('requireAdmin'))
HasAuth(middleware) ==
    \E k \in 1..Len(middleware) :
        Includes(middleware[k], "authenticate") \/ Includes(middleware[k], "requireAdmin")

(***************************************************************************)
(* extractRoutes: the handler regex, an identifier, a dot and an           *)
(* identifier (white space allowed around the dot) followed, after         *)
(* optional white space, by ".bind(", by a comma, by a closing             *)
(* parenthesis or by the end of the text                                   *)
(***************************************************************************)
\* the lookahead of the handler regex at position i
Lookahead(mh, i) ==
    LET l == SkipWs(mh, i)
    IN \/ l > Len(mh)
       \/ mh[l] \in {",", ")"}
       \/ /\ mh[l] = "."
          /\ At(mh, l + 1) = "bind"
          /\ At(mh, SkipWs(mh, l + 2)) = "("

\* A match that starts at i: <<obj, meth, position of its last lexeme>>, or
\* <<>> when the regex does not match at i
HandlerMatchAt(mh, i) ==
    IF mh[i] \in DottedTokens
    THEN IF Lookahead(mh, i + 1)
         THEN <<DottedObj(mh[i]), DottedMeth(mh[i]), i>> ELSE <<>>
    ELSE IF mh[i] \notin Idents THEN <<>>
    ELSE LET j == SkipWs(mh, i + 1)
         IN IF At(mh, j) # "." THEN <<>>
            ELSE LET k == SkipWs(mh, j + 1)
                 IN IF At(mh, k) \in Idents /\ Lookahead(mh, k + 1)
                    THEN <<mh[i], mh[k], k>> ELSE <<>>

RECURSIVE HandlerMatches(_, _)
\* Array.from(middlewareAndHandler.matchAll(...)) from position i on
HandlerMatches(mh, i) ==
    IF i > Len(mh) THEN <<>>
    ELSE LET m == HandlerMatchAt(mh, i)
         IN IF m = <<>> THEN HandlerMatches(mh, i + 1)
            ELSE <<m>> \o HandlerMatches(mh, m[3] + 1)

(***************************************************************************)
(* generateOperationId(method, routePath)                                  *)
(***************************************************************************)
\* .replace(/^\//, '').replace(/[{}]/g, '').replace(/[^a-zA-Z0-9\/]/g, '')
CleanChars(p) ==
    LET q == IF Len(p) > 0 /\ p[1] = "/" THEN Tail(p) ELSE p
    IN SelectSeq(q, LAMBDA c : c \in AlnumChars \cup {"/"})

RECURSIVE SplitSlash(_, _, _)
\* .split('/').filter(Boolean): the non-empty parts of q from position i,
\* cur being the part read so far
SplitSlash(q, i, cur) ==
    IF i > Len(q) THEN (IF cur = <<>> THEN <<>> ELSE <<cur>>)
    ELSE IF q[i] = "/"
         THEN (IF cur = <<>> THEN <<>> ELSE <<cur>>) \o SplitSlash(q, i + 1, <<>>)
         ELSE SplitSlash(q, i + 1, Append(cur, q[i]))

LowerAll(w) == [k \in 1..Len(w) |-> ToLower(w[k])]

\* part.charAt(0).toUpperCase() + part.slice(1).toLowerCase()
Capitalize(w) ==
    IF w = <<>> THEN <<>> ELSE <<ToUpper(w[1])>> \o LowerAll(Tail(w))

RECURSIVE JoinParts(_, _)
JoinParts(parts, k) ==
    IF k > Len(parts) THEN <<>>
    ELSE (IF k = 1 THEN LowerAll(parts[k]) ELSE Capitalize(parts[k]))
         \o JoinParts(parts, k + 1)

\* method.toLowerCase() followed by the capitalised clean path
GenerateOperationId(method, routePath) ==
    LET cleanPath == JoinParts(SplitSlash(CleanChars(routePath), 1, <<>>), 1)
    IN <<MethodLower(method)>> \o
       (IF cleanPath = <<>> THEN <<>>
        ELSE <<ToUpper(cleanPath[1])>> \o Tail(cleanPath))

(***************************************************************************)
(* extractRoutes: one iteration of the while-loop                          *)
(***************************************************************************)
InlineHandler(mh) ==
    \/ IncludesSeq(mh, <<"(", "req", ",", " ", "res", ")">>)
    \/ IncludesSeq(mh, <<"(", "req", ",", "res", ")">>)

\* handlerName and controllerMethod before the final fallback
HandlerOf(mh, method, routePath) ==
    LET matches == HandlerMatches(mh, 1)
    IN IF Len(matches) > 0
       THEN LET last == matches[Len(matches)]
            IN [handlerName |-> <<last[1], ".", last[2]>>,
                controllerMethod |-> <<last[2]>>]
       ELSE IF InlineHandler(mh)
            THEN [handlerName |-> <<"anonymous">>,
                  controllerMethod |-> GenerateOperationId(method, routePath)]
            ELSE [handlerName |-> <<"unknown">>,
                  controllerMethod |-> <<"unknown">>]

\* the RouteInfo pushed for the match at position index
RouteInfoAt(s, base, index) ==
    LET litPos == MatchEnd(s, index)
        method == VerbUpper(VerbOf(s[index]))
        routePath == PathOf(s[litPos])
        mh == MiddlewareAndHandler(s, litPos + 1)
        h == HandlerOf(mh, method, routePath)
        middleware == Middleware(mh)
    IN [method |-> method,
        path |-> base \o RewritePathParams(routePath),
        handlerName |-> h.handlerName,
        controllerMethod |->
            IF h.controllerMethod \in {<<"unknown">>, <<"bind">>}
            THEN GenerateOperationId(method, routePath)
            ELSE h.controllerMethod,
        hasAuth |-> HasAuth(middleware),
        middleware |-> middleware,
        validatorSchema |-> ValidatorSchema(mh)]

(***************************************************************************)
(* The routing files of the model: up to MaxStmts statements, each a       *)
(* registration written from a head and an argument list, closed or left   *)
(* without its closing parenthesis, or a router.use mount.  The ghost      *)
(* fields say what was written: canon and opId are the canonical path and  *)
(* the synthesized operation id of the head; schema is the text between    *)
(* "validate(" and its closing parenthesis (Undefined when there is no     *)
(* validate call), schemaNorm that text trimmed with runs of white space   *)
(* collapsed; last tells what the last argument is.                        *)
(***************************************************************************)
Heads == <<
    \* router.get('/users/:id'
    [toks |-> <<"router.get", "(", "'/users/:id'">>,
     method |-> "GET",
     canon |-> <<"/", "u", "s", "e", "r", "s", "/", "{", "i", "d", "}">>,
     opId |-> <<"get", "U", "s", "e", "r", "s", "I", "d">>],
    \* router.post(
    \*  '/login'
    [toks |-> <<"router.post", "(", "\n", " ", "'/login'">>,
     method |-> "POST",
     canon |-> <<"/", "l", "o", "g", "i", "n">>,
     opId |-> <<"post", "L", "o", "g", "i", "n">>] >>

Args == <<
    \* no argument after the path
    [toks |-> <<>>,
     schema |-> Undefined, schemaNorm |-> Undefined,
     last |-> "none", obj |-> "", meth |-> ""],
    \* , authController.login
    [toks |-> <<",", " ", "authController", ".", "login">>,
     schema |-> Undefined, schemaNorm |-> Undefined,
     last |-> "dotted", obj |-> "authController", meth |-> "login"],
    \* ,
    \* validate(authSchemas.register),
    \* authController.login
    [toks |-> <<",", "\n", "validate", "(", "authSchemas", ".", "register", ")",
                ",", "\n", "authController", ".", "login", "\n">>,
     schema |-> <<"authSchemas", ".", "register">>,
     schemaNorm |-> <<"authSchemas", ".", "register">>,
     last |-> "dotted", obj |-> "authController", meth |-> "login"],
    \* , validate( pick(authSchemas,
    \*  fields) ), authController.register.bind(authController)
    [toks |-> <<",", " ", "validate", "(", " ", "pick", "(", "authSchemas", ",",
                "\n", " ", "fields", ")", " ", ")", ",", " ", "authController",
                ".", "register", ".", "bind", "(", "authController", ")">>,
     schema |-> <<" ", "pick", "(", "authSchemas", ",", "\n", " ", "fields",
                  ")", " ">>,
     schemaNorm |-> <<"pick", "(", "authSchemas", ",", " ", "fields", ")">>,
     last |-> "dotted", obj |-> "authController", meth |-> "register"],
    \* , authenticate, (req, res) => { res.json(req.body) }
    [toks |-> <<",", " ", "authenticate", ",", " ", "(", "req", ",", " ", "res",
                ")", " ", "=>", " ", "{", " ", "res", ".", "json", "(", "req",
                ".", "body", ")", " ", "}">>,
     schema |-> Undefined, schemaNorm |-> Undefined,
     last |-> "inline", obj |-> "", meth |-> ""],
    \* , (req,res) => { res.send() }
    [toks |-> <<",", " ", "(", "req", ",", "res", ")", " ", "=>", " ", "{", " ",
                "res", ".", "send", "(", ")", " ", "}">>,
     schema |-> Undefined, schemaNorm |-> Undefined,
     last |-> "inline", obj |-> "", meth |-> ""],
    \* , validate(authSchemas.register), loginHandler
    [toks |-> <<",", " ", "validate", "(", "authSchemas", ".", "register", ")",
                ",", " ", "loginHandler">>,
     schema |-> <<"authSchemas", ".", "register">>,
     schemaNorm |-> <<"authSchemas", ".", "register">>,
     last |-> "bare", obj |-> "", meth |-> ""],
    \* , validate(), authController.login
    [toks |-> <<",", " ", "validate", "(", ")", ",", " ", "authController", ".",
                "login">>,
     schema |-> <<>>, schemaNorm |-> <<>>,
     last |-> "dotted", obj |-> "authController", meth |-> "login"],
    \* , requireAdmin, adminController.list
    [toks |-> <<",", " ", "requireAdmin", ",", " ", "adminController", ".", "list">>,
     schema |-> Undefined, schemaNorm |-> Undefined,
     last |-> "dotted", obj |-> "adminController", meth |-> "list"] >>

UseStmt == [kind |-> "use", h |-> 1, a |-> 1, closed |-> TRUE]

StmtSet ==
    {[kind |-> "reg", h |-> h, a |-> a, closed |-> c] :
        h \in 1..Len(Heads), a \in 1..Len(Args), c \in BOOLEAN}
    \cup {UseStmt}

StmtText(st) ==
    IF st.kind = "use"
    THEN <<"router.use", "(", "'/login'", ",", " ", "authRoutes", ")", ";", "\n">>
    ELSE Heads[st.h].toks \o Args[st.a].toks
         \o (IF st.closed THEN <<")", ";", "\n">> ELSE <<";", "\n">>)

RECURSIVE FileText(_, _)
FileText(ss, k) ==
    IF k > Len(ss) THEN <<>> ELSE StmtText(ss[k]) \o FileText(ss, k + 1)

RouteFiles == UNION {[1..n -> StmtSet] : n \in 0..MaxStmts}

\* The characters of the route paths the rewrite is checked on
PathChars == {"/", ":", "a", "{", "}"}

PathStrings == UNION {[1..n -> PathChars] : n \in 0..MaxPathLen}

(***************************************************************************)
(* Specification of extractRoutes: one action per iteration of the         *)
(* while-loop, one for the return.                                         *)
(***************************************************************************)
CleanIdle ==
    /\ rawSchema = <<>>
    /\ cleaned = <<>>
    /\ kpc = "idle"

EndpointIdle ==
    /\ route = <<>>
    /\ controllerInfo = <<>>
    /\ smartDefaults = TRUE
    /\ epc = "idle"
    /\ codes = <<>>
    /\ validatorModule = <<>>
    /\ joiSchema = <<>>
    /\ joiSchemaObj = <<>>
    /\ joiFailure = "none"
    /\ raised = FALSE
    /\ requestSchema = <<>>
    /\ responses = <<>>

ExampleIdle ==
    /\ schemaObj = <<>>
    /\ extractedSchemas = <<>>
    /\ example = <<>>
    /\ deepest = 0
    /\ xpc = "idle"

DriverIdle ==
    /\ routesDir = <<>>
    /\ routeFiles = <<>>
    /\ fileIdx = 1
    /\ allEndpoints = <<>>
    /\ endpointObjects = <<>>
    /\ paths = <<>>
    /\ dpc = "idle"
    /\ fieldTypeInference = TRUE

LoaderIdle ==
    /\ existingFiles = {}
    /\ tsNodeAvailable = TRUE
    /\ calls = <<>>
    /\ tsNodeRegistered = FALSE
    /\ registrations = 0

MountIdle ==
    /\ indexFile = <<>>
    /\ routerMounts = <<>>
    /\ mountFile = <<>>
    /\ routeBasePath = <<>>
    /\ mpc = "idle"

LastIdle == ExampleIdle /\ DriverIdle /\ LoaderIdle /\ MountIdle

LaterIdle == CleanIdle /\ EndpointIdle /\ LastIdle

RouteIdle ==
    /\ stmts = <<>>
    /\ fileContent = <<>>
    /\ basePath = <<>>
    /\ lastIndex = 1
    /\ routes = <<>>
    /\ pc = "idle"

PathIdle ==
    /\ rawPath = <<>>
    /\ curPath = <<>>
    /\ prevPath = <<>>
    /\ applied = 0

CtrlIdle ==
    /\ lines = <<>>
    /\ methodName = ""
    /\ lineNo = 1
    /\ inMethod = FALSE
    /\ braceCount = 0
    /\ statusCodes = <<>>
    /\ requestBodyFields = <<>>
    /\ cpc = "idle"

TypeIdle ==
    /\ typeDecls = <<>>
    /\ schemas = <<>>
    /\ declIdx = 1
    /\ requests = <<>>
    /\ maxDepth = 0
    /\ tpc = "idle"

InitRoutes ==
    /\ stmts \in RouteFiles
    /\ fileContent = FileText(stmts, 1)
    /\ basePath = <<"/", "a", "p", "i">>
    /\ lastIndex = 1
    /\ routes = <<>>
    /\ pc = "loop"
    /\ PathIdle
    /\ CtrlIdle
    /\ TypeIdle
    /\ LaterIdle

\* while ((match = routeRegex.exec(fileContent)) !== null) { ...; routes.push }
ExtractRoute ==
    /\ pc = "loop"
    /\ ExecIndex(fileContent, lastIndex) # 0
    /\ LET index == ExecIndex(fileContent, lastIndex)
       IN /\ routes' = Append(routes, RouteInfoAt(fileContent, basePath, index))
          /\ lastIndex' = MatchEnd(fileContent, index) + 1
    /\ UNCHANGED <<stmts, fileContent, basePath, pc>>
    /\ UNCHANGED <<pathVars, ctrlVars, typeVars>>
    /\ UNCHANGED laterVars

\* exec returns null: return routes
ReturnRoutes ==
    /\ pc = "loop"
    /\ ExecIndex(fileContent, lastIndex) = 0
    /\ pc' = "done"
    /\ UNCHANGED <<stmts, fileContent, basePath, lastIndex, routes>>
    /\ UNCHANGED <<pathVars, ctrlVars, typeVars>>
    /\ UNCHANGED laterVars

NextRoutes == ExtractRoute \/ ReturnRoutes

vars == <<stmts, fileContent, basePath, lastIndex, routes, pc,
          rawPath, curPath, prevPath, applied,
          lines, methodName, lineNo, inMethod, braceCount, statusCodes,
          requestBodyFields, cpc,
          typeDecls, schemas, declIdx, requests, maxDepth, tpc, laterVars>>

SpecRoutes == InitRoutes /\ [][NextRoutes]_vars

(***************************************************************************)
(* Specification of the path-parameter rewrite: the rewrite is applied to  *)
(* a path, then to its own result.                                         *)
(***************************************************************************)
InitPath ==
    /\ rawPath \in PathStrings
    /\ curPath = rawPath
    /\ prevPath = rawPath
    /\ applied = 0
    /\ RouteIdle
    /\ CtrlIdle
    /\ TypeIdle
    /\ LaterIdle

ApplyRewrite ==
    /\ applied < MaxApply
    /\ prevPath' = curPath
    /\ curPath' = RewritePathParams(curPath)
    /\ applied' = applied + 1
    /\ UNCHANGED rawPath
    /\ UNCHANGED <<routeVars, ctrlVars, typeVars>>
    /\ UNCHANGED laterVars

NextPath == ApplyRewrite

SpecPath == InitPath /\ [][NextPath]_vars

(***************************************************************************)
(* What the routing file was written from.                                 *)
(***************************************************************************)
\* the registrations of the file, in the order they were written
RegStmts == SelectSeq(stmts, LAMBDA st : st.kind = "reg")

\* parentheses are balanced over the whole text
RECURSIVE DepthOk(_, _, _)
DepthOk(s, i, depth) ==
    IF i > Len(s) THEN depth = 0
    ELSE IF s[i] = "(" THEN DepthOk(s, i + 1, depth + 1)
    ELSE IF s[i] = ")" THEN depth >= 1 /\ DepthOk(s, i + 1, depth - 1)
    ELSE DepthOk(s, i + 1, depth)

Balanced == DepthOk(fileContent, 1, 0)

\* the descriptors that report method and path of the given registrations
Reports(rs, regs) ==
    /\ Len(rs) = Len(regs)
    /\ \A i \in 1..Len(regs) :
        /\ rs[i].method = Heads[regs[i].h].method
        /\ rs[i].path = basePath \o Heads[regs[i].h].canon

(***************************************************************************)
(* C1: for a routing file with balanced delimiters extractRoutes returns   *)
(* exactly one descriptor per registration call, in the order of the       *)
(* calls, each with the call's method and canonical path, whatever line    *)
(* breaks and nested parenthesised groups the argument lists hold; a       *)
(* router.use statement is not reported.                                   *)
(***************************************************************************)
C1_OneDescriptorPerRegistration ==
    (pc = "done" /\ Balanced) => Reports(routes, RegStmts)

\* two registrations, one with its path on a line of its own and one with
\* nested parentheses over two lines, beside nothing else, both reported
C1_Witness ==
    /\ pc = "done"
    /\ Balanced
    /\ Len(routes) = 2
    /\ \E i, j \in 1..Len(stmts) :
        /\ stmts[i].kind = "reg" /\ stmts[i].h = 2
        /\ stmts[j].kind = "reg" /\ stmts[j].a = 4

(***************************************************************************)
(* C2 as claimed: the validationSchemaRef of a closed registration whose   *)
(* argument list holds validate(<expr>) is the text between "validate("    *)
(* and the matching close parenthesis, verbatim.                           *)
(***************************************************************************)
C2_SchemaRefVerbatim ==
    pc = "done" =>
        \A i \in 1..Len(RegStmts) :
            (RegStmts[i].closed /\ Args[RegStmts[i].a].schema \notin {Undefined, <<>>})
                => routes[i].validatorSchema = Args[RegStmts[i].a].schema

(***************************************************************************)
(* C2 as amended: the validationSchemaRef is that text (nested             *)
(* parentheses do not end it early) with leading and trailing white space  *)
(* removed and every run of white space inside it replaced by one space;   *)
(* post('/login', validate(authSchemas.register), authController.login)    *)
(* over 4 lines gives method POST, validationSchemaRef                     *)
(* authSchemas.register and a handler reference ending in .login.          *)
(***************************************************************************)
C2_SchemaRefNormalized ==
    pc = "done" =>
        \A i \in 1..Len(RegStmts) :
            LET st == RegStmts[i]
            IN st.closed =>
                /\ Args[st.a].schema \notin {Undefined, <<>>}
                    => routes[i].validatorSchema = Args[st.a].schemaNorm
                /\ (st.h = 2 /\ st.a = 3) =>
                    /\ routes[i].method = "POST"
                    /\ routes[i].validatorSchema = <<"authSchemas", ".", "register">>
                    /\ routes[i].handlerName[Len(routes[i].handlerName)] = "login"

\* the 4-line scenario and a validate call with nested parentheses and line
\* breaks were both extracted
C2_Witness ==
    /\ pc = "done"
    /\ \E i, j \in 1..Len(RegStmts) :
        /\ RegStmts[i].closed /\ RegStmts[i].h = 2 /\ RegStmts[i].a = 3
        /\ routes[i].validatorSchema = <<"authSchemas", ".", "register">>
        /\ RegStmts[j].closed /\ RegStmts[j].a = 4
        /\ routes[j].validatorSchema # Undefined

(***************************************************************************)
(* C3 as claimed: a registration whose argument list is unterminated       *)
(* produces no descriptor, and the descriptors returned are those of the   *)
(* well-formed registrations of the file.                                  *)
(***************************************************************************)
C3_UnterminatedSkipped ==
    pc = "done" =>
        Reports(routes, SelectSeq(RegStmts, LAMBDA st : st.closed))

(***************************************************************************)
(* C5 as claimed: the handler reference of a closed registration is the    *)
(* dotted expression just before its closing parenthesis (optionally       *)
(* followed by .bind(...)) and the operation name is its last identifier;  *)
(* the handler is anonymous, with the operation id synthesized from        *)
(* method and path, exactly when there is no such expression and the       *)
(* argument list holds an inline (req, res) handler.                       *)
(***************************************************************************)
C5_HandlerIsLastArgument ==
    pc = "done" =>
        \A i \in 1..Len(RegStmts) :
            LET st == RegStmts[i]
                a == Args[st.a]
            IN st.closed =>
                /\ a.last = "dotted" =>
                    /\ routes[i].handlerName = <<a.obj, ".", a.meth>>
                    /\ routes[i].controllerMethod = <<a.meth>>
                /\ a.last = "inline" =>
                    /\ routes[i].handlerName = <<"anonymous">>
                    /\ routes[i].controllerMethod = Heads[st.h].opId
                /\ routes[i].handlerName = <<"anonymous">> => a.last = "inline"

(***************************************************************************)
(* C4: the path-parameter rewrite is idempotent: a path in canonical       *)
(* brace form (no colon followed by a word character is left in it) is     *)
(* returned unchanged, and the second application of the rewrite to any    *)
(* path returns the result of the first.                                   *)
(***************************************************************************)
IsCanonical(p) ==
    \A i \in 1..Len(p) : ~(p[i] = ":" /\ At(p, i + 1) \in WordChars)

C4_RewriteIdempotent ==
    /\ (applied >= 1 /\ IsCanonical(prevPath)) => curPath = prevPath
    /\ applied >= 2 => curPath = prevPath

\* a path with a parameter was rewritten, and rewritten again
C4_Witness ==
    /\ applied = 2
    /\ ~IsCanonical(rawPath)
    /\ curPath # rawPath
    /\ \E i \in 1..Len(curPath) : curPath[i] = "{"

(***************************************************************************)
(* analyzeControllerMethod(controllerContent, methodName), called without  *)
(* a controllerFilePath, so that extractResponseTypesFromMethod is not     *)
(* run.  The scan reads a line only through the tests below, and a line    *)
(* of the controller is modelled by what those tests see:                  *)
(*   hasKw     line.includes('async') || line.includes('=')                *)
(*   mentions  the lower-cased names that line.toLowerCase() includes      *)
(*   opens     the number of "{" in the line, closes the number of "}"     *)
(*   status    the literal codes of the res.status(<digits>) calls of      *)
(*             the line, in order                                          *)
(*   fields    the comma-separated, trimmed names of a                     *)
(*             "const { ... } = req.body" on the line, <<>> when the       *)
(*             line has none                                               *)
(*   usage     the <<pattern, name>> usages the line holds, such as        *)
(*             parseInt(name)                                              *)
(*   owner     ghost: the method whose body, from its first opening brace  *)
(*             to the matching closing brace, the line lies in             *)
(***************************************************************************)
Line(hasKw, mentions, opens, closes, status, fields, usage) ==
    [hasKw |-> hasKw, mentions |-> mentions, opens |-> opens,
     closes |-> closes, status |-> status, fields |-> fields,
     usage |-> usage, owner |-> ""]

nEmail == <<"e", "m", "a", "i", "l">>
nPassword == <<"p", "a", "s", "s", "w", "o", "r", "d">>
nLimit == <<"l", "i", "m", "i", "t">>
nNote == <<"n", "o", "t", "e">>

\* methodName.replace(/^(get|post|put|patch|delete)/i, '') for the method
\* names of the model: the candidates are the name and, when it differs and
\* is not empty, the stripped name
MethodCandidates(m) ==
    IF m = "getProfile" THEN {"getProfile", "Profile"} ELSE {m}

\* c.toLowerCase()
LowerWord(w) ==
    CASE w = "getProfile" -> "getprofile"
      [] w = "Profile" -> "profile"
      [] OTHER -> w

\* the names a line that spells m includes, lower-cased
MentionsOf(m) == {LowerWord(c) : c \in MethodCandidates(m)}

StartsWithSeq(t, lit) ==
    Len(t) >= Len(lit) /\ SubSeq(t, 1, Len(lit)) = lit

\* inferFieldType(fieldName, lines, startLine)
InferFieldType(fieldName, ls, startLine) ==
    LET lower == LowerAll(fieldName)
        fieldUsage == UNION {ls[k].usage : k \in startLine..Len(ls)}
    IN IF IncludesSeq(lower, <<"e", "m", "a", "i", "l">>) THEN "string (email)"
       ELSE IF IncludesSeq(lower, <<"p", "a", "s", "s", "w", "o", "r", "d">>)
            THEN "string (password)"
       ELSE IF IncludesSeq(lower, <<"i", "d">>) THEN "string (uuid)"
       ELSE IF \/ IncludesSeq(lower, <<"a", "g", "e">>)
               \/ IncludesSeq(lower, <<"c", "o", "u", "n", "t">>) THEN "number"
       ELSE IF \/ IncludesSeq(lower, <<"p", "r", "i", "c", "e">>)
               \/ IncludesSeq(lower, <<"a", "m", "o", "u", "n", "t">>) THEN "number"
       ELSE IF \/ IncludesSeq(lower, <<"d", "a", "t", "e">>)
               \/ IncludesSeq(lower, <<"t", "i", "m", "e">>) THEN "string (date)"
       ELSE IF \/ StartsWithSeq(lower, <<"i", "s">>)
               \/ StartsWithSeq(lower, <<"h", "a", "s">>) THEN "boolean"
       ELSE IF \/ <<"parseInt", fieldName>> \in fieldUsage
               \/ <<"Number", fieldName>> \in fieldUsage THEN "number"
       ELSE IF \/ <<"toLowerCase", fieldName>> \in fieldUsage
               \/ <<"trim", fieldName>> \in fieldUsage THEN "string"
       ELSE IF \/ <<"=== true", fieldName>> \in fieldUsage
               \/ <<"=== false", fieldName>> \in fieldUsage THEN "boolean"
       ELSE "string"

\* the requestBodyFields built from the destructuring on line i
FieldsOf(ls, i) ==
    [k \in 1..Len(ls[i].fields) |->
        [name |-> ls[i].fields[k],
         type |-> InferFieldType(ls[i].fields[k], ls, i),
         required |-> TRUE]]

SeqRange(q) == {q[k] : k \in 1..Len(q)}

(***************************************************************************)
(* The controller files of the model: a class of up to MaxMethods methods  *)
(* with distinct names, each declared with or without async and with one   *)
(* of the bodies below, followed by the export of an instance.             *)
(***************************************************************************)
Bodies == <<
    \* const { email, password } = req.body;
    \* if (!email) return res.status(400).json({ error: 'required' });
    \* return res.status(200).json({ success: true });
    <<Line(TRUE, {}, 1, 1, <<>>, <<nEmail, nPassword>>, {}),
      Line(FALSE, {}, 1, 1, <<400>>, <<>>, {}),
      Line(FALSE, {}, 1, 1, <<200>>, <<>>, {})>>,
    \* res.status(201).json(user);
    <<Line(FALSE, {}, 0, 0, <<201>>, <<>>, {})>>,
    \* if (!u) res.status(404).end(); else res.status(200).json(u);
    <<Line(FALSE, {}, 0, 0, <<404, 200>>, <<>>, {})>>,
    \* const token = await this.login(req.body);
    \* res.status(500).end();
    <<Line(TRUE, {"login"}, 0, 0, <<>>, <<>>, {}),
      Line(FALSE, {}, 0, 0, <<500>>, <<>>, {})>>,
    \* const { limit, email, note } = req.body;
    \* const n = parseInt(limit) + parseInt(email);
    <<Line(TRUE, {}, 1, 1, <<>>, <<nLimit, nEmail, nNote>>, {}),
      Line(TRUE, {}, 0, 0, <<>>, <<>>,
           {<<"parseInt", nLimit>>, <<"parseInt", nEmail>>})>>,
    \* const profile = load();
    \* res.status(204).end();
    <<Line(TRUE, {"profile"}, 0, 0, <<>>, <<>>, {}),
      Line(FALSE, {}, 0, 0, <<204>>, <<>>, {})>> >>

MethodNames == {"login", "register", "getProfile"}

\* name(req, res) {  or  async name(req, res) {, the body, and }
MethodLines(m) ==
    LET own(l) == [l EXCEPT !.owner = m.name]
        body == Bodies[m.body]
    IN <<own(Line(m.async, MentionsOf(m.name), 1, 0, <<>>, <<>>, {}))>>
       \o [k \in 1..Len(body) |-> own(body[k])]
       \o <<own(Line(FALSE, {}, 0, 1, <<>>, <<>>, {}))>>

RECURSIVE ClassLines(_, _)
ClassLines(ms, k) ==
    IF k > Len(ms) THEN <<>> ELSE MethodLines(ms[k]) \o ClassLines(ms, k + 1)

\* export class AuthController { ... }
\* export const authController = new AuthController();
ControllerText(ms) ==
    <<Line(FALSE, {"authcontroller"}, 1, 0, <<>>, <<>>, {})>>
    \o ClassLines(ms, 1)
    \o <<Line(FALSE, {}, 0, 1, <<>>, <<>>, {}),
         Line(TRUE, {"authcontroller"}, 0, 0, <<>>, <<>>, {})>>

MethodDecls ==
    [name : MethodNames, async : BOOLEAN, body : 1..Len(Bodies)]

ControllerClasses ==
    {ms \in UNION {[1..n -> MethodDecls] : n \in 1..MaxMethods} :
        \A i, j \in 1..Len(ms) : i # j => ms[i].name # ms[j].name}

(***************************************************************************)
(* Specification of analyzeControllerMethod: one action per iteration of   *)
(* the for-loop over the lines, one for the default and the return.        *)
(***************************************************************************)
InitController ==
    /\ \E ms \in ControllerClasses :
        /\ lines = ControllerText(ms)
        /\ methodName \in {ms[k].name : k \in 1..Len(ms)}
    /\ lineNo = 1
    /\ inMethod = FALSE
    /\ braceCount = 0
    /\ statusCodes = <<>>
    /\ requestBodyFields = <<>>
    /\ cpc = "scan"
    /\ RouteIdle
    /\ PathIdle
    /\ TypeIdle
    /\ LaterIdle

\* the body of the for-loop for line i, with its break
ScanLine ==
    /\ cpc = "scan"
    /\ lineNo <= Len(lines)
    /\ LET line == lines[lineNo]
           inM == \/ inMethod
                  \/ /\ line.hasKw
                     /\ \E c \in MethodCandidates(methodName) :
                            LowerWord(c) \in line.mentions
           bc == IF inM THEN braceCount + line.opens - line.closes
                 ELSE braceCount
           stop == inM /\ bc = 0 /\ line.closes > 0
       IN /\ inMethod' = inM
          /\ braceCount' = bc
          /\ statusCodes' =
                IF inM /\ line.status # <<>> /\ line.status[1] \notin SeqRange(statusCodes)
                THEN Append(statusCodes, line.status[1])
                ELSE statusCodes
          /\ requestBodyFields' =
                IF inM /\ line.fields # <<>> THEN FieldsOf(lines, lineNo)
                ELSE requestBodyFields
          /\ lineNo' = lineNo + 1
          /\ cpc' = IF stop \/ lineNo = Len(lines) THEN "after" ELSE "scan"
    /\ UNCHANGED <<lines, methodName>>
    /\ UNCHANGED <<routeVars, pathVars, typeVars>>
    /\ UNCHANGED laterVars

\* if (statusCodes.length === 0) statusCodes.push(200); return
ReturnAnalysis ==
    /\ cpc = "after"
    /\ statusCodes' = IF statusCodes = <<>> THEN <<200>> ELSE statusCodes
    /\ cpc' = "done"
    /\ UNCHANGED <<lines, methodName, lineNo, inMethod, braceCount, requestBodyFields>>
    /\ UNCHANGED <<routeVars, pathVars, typeVars>>
    /\ UNCHANGED laterVars

NextController == ScanLine \/ ReturnAnalysis

SpecController == InitController /\ [][NextController]_vars

(***************************************************************************)
(* C6 as claimed: the status codes returned for M are exactly the          *)
(* distinct literal codes passed to res.status(...) inside the body of M   *)
(* (no code of another method, none of M's missing), and [200] when the    *)
(* body of M emits none.                                                   *)
(***************************************************************************)
BodyCodes(m) ==
    UNION {SeqRange(lines[k].status) : k \in {j \in 1..Len(lines) : lines[j].owner = m}}

C6_StatusCodesOfMethodBody ==
    cpc = "done" =>
        IF BodyCodes(methodName) = {} THEN statusCodes = <<200>>
        ELSE /\ SeqRange(statusCodes) = BodyCodes(methodName)
             /\ Len(statusCodes) = Cardinality(BodyCodes(methodName))

(***************************************************************************)
(* C7 as claimed: a "const { f1, ..., fn } = req.body" inside the body of  *)
(* M yields one required field per destructured name, in order; the kind   *)
(* is decided by the name-substring rules when one applies, by the         *)
(* usage-pattern rules otherwise, and is string when none applies;         *)
(* "const { email, password } = req.body" gives email: email-kind and      *)
(* password: password-kind.                                                *)
(***************************************************************************)
NameKind(name) ==
    CASE name = nEmail -> "string (email)"
      [] name = nPassword -> "string (password)"
      [] OTHER -> "none"

UsageKind(name, from) ==
    IF \E k \in from..Len(lines) :
            <<"parseInt", name>> \in lines[k].usage \/ <<"Number", name>> \in lines[k].usage
    THEN "number"
    ELSE "string"

C7_FieldsOfDestructuring ==
    cpc = "done" =>
        \A k \in 1..Len(lines) :
            (lines[k].owner = methodName /\ lines[k].fields # <<>>) =>
                /\ Len(requestBodyFields) = Len(lines[k].fields)
                /\ \A j \in 1..Len(lines[k].fields) :
                    LET name == lines[k].fields[j]
                    IN /\ requestBodyFields[j].name = name
                       /\ requestBodyFields[j].required
                       /\ requestBodyFields[j].type =
                            IF NameKind(name) # "none" THEN NameKind(name)
                            ELSE UsageKind(name, k)

(***************************************************************************)
(* Type Graph Resolver: loadTypesFromDirectory and typeToJsonSchema.       *)
(*                                                                         *)
(* A TypeScript type is a term: the primitive string, a reference to an    *)
(* interface by name, or an array of a term.  A declaration is an          *)
(* interface with an ordered list of members.  A schema is a record: a     *)
(* primitive [type], an array [type, items], an object [type, properties,  *)
(* additionalProperties] with [required] when some member is required, or  *)
(* a reference node [ref] standing for {$ref: '#/components/schemas/N'}.   *)
(* JSON.parse(JSON.stringify(x)) is a deep copy; schemas are values here,  *)
(* so the copy of a schema is the schema.                                  *)
(***************************************************************************)
TypeNames == <<"Team", "User", "Post", "Tag">>

StringType == [k |-> "prim", t |-> "string"]
RefType(n) == [k |-> "ref", n |-> n]
ArrayType(e) == [k |-> "arr", of |-> e]
NullType == [k |-> "null"]
StringLiteral(v) == [k |-> "lit", value |-> v]
\* a union as the checker hands it over: its member types in the checker's
\* order and, for the type of an alias declaration, the alias name
UnionType(types, alias) == [k |-> "union", types |-> types, alias |-> alias]

Prop(name, type, optional) == [name |-> name, type |-> type, optional |-> optional]

\* interface <name> { name: string; <extra members> }
InterfaceDecl(name, extra) ==
    [name |-> name, props |-> <<Prop("name", StringType, FALSE)>> \o extra]

\* The second member of an interface, when it has one:
\*   tags: string[]   |   members: Team[]   |   manager?: N      (N declared)
MemberOptions(declared) ==
    {<<>>, <<Prop("tags", ArrayType(StringType), FALSE)>>,
           <<Prop("members", ArrayType(RefType(TypeNames[1])), FALSE)>>}
        \cup {<<Prop("manager", RefType(n), TRUE)>> : n \in declared}

NamesUpTo(n) == {TypeNames[i] : i \in 1..n}

TypeFiles ==
    UNION {{[i \in 1..n |-> InterfaceDecl(TypeNames[i], f[i])] :
                f \in [1..n -> MemberOptions(NamesUpTo(n))]} :
           n \in {m \in 1..MaxTypes : m <= Len(TypeNames)}}

\* typeDeclarations, filled by the first pass: the declared names and
\* typeDeclarations.get(name)
DeclaredNames == {typeDecls[i].name : i \in 1..Len(typeDecls)}
DeclarationOf(n) == typeDecls[CHOOSE i \in 1..Len(typeDecls) : typeDecls[i].name = n]

\* isInterface, and checker.getTypeAtLocation(node) for the declaration
IsInterface(decl) == "props" \in DOMAIN decl
DeclaredType(n) == IF IsInterface(DeclarationOf(n)) THEN RefType(n) ELSE DeclarationOf(n).type

\* The identifier a printed union starts with: the alias name for the type
\* of an alias, else its first member, null being printed last.
NonNullTypes(types) == SelectSeq(types, LAMBDA t : t.k # "null")

\* The name the resolver gives a type: the symbol's name; when that is not
\* a declared name, the capitalised identifier the printed type starts
\* with if it is declared (so "User[]", whose symbol is Array, is named
\* User); "" is no name.
TypeNameOf(type) ==
    CASE type.k = "ref" -> type.n
      [] type.k = "arr" ->
            IF type.of.k = "ref" /\ type.of.n \in DeclaredNames THEN type.of.n ELSE "Array"
      [] type.k = "union" ->
            IF type.alias \in DeclaredNames THEN type.alias
            ELSE IF NonNullTypes(type.types) # <<>>
                    /\ NonNullTypes(type.types)[1].k = "ref"
                    /\ NonNullTypes(type.types)[1].n \in DeclaredNames
                 THEN NonNullTypes(type.types)[1].n
                 ELSE ""
      [] OTHER -> ""

RefNode(n) == [ref |-> n]

\* extractedSchemas[typeName] = schema
StoreSchema(extracted, n, schema) ==
    [m \in DOMAIN extracted \cup {n} |-> IF m = n THEN schema ELSE extracted[m]]

\* Nested typeToJsonSchema calls are counted; a chain of more than
\* StackLimit calls is cut, so that an unbounded recursion shows as a depth
\* above DepthBound rather than as a computation without end.
DepthBound == 2 * Len(typeDecls) + 1
StackLimit == DepthBound + 2

Max(a, b) == IF a >= b THEN a ELSE b

\* if (visitedTypes.has(typeName)): the circular-reference test
CircularNever(typeName, visitedTypes) == FALSE

Circular(typeName, visitedTypes) == typeName \in visitedTypes

\* What a call returns: the schema, the registry after the stores the call
\* made, the references by name it answered with a schema (each with how
\* it was answered: from the registry, or by extracting the declaration),
\* and the depth of the deepest nested call.
Returned(schema, extracted, log, deep) ==
    [schema |-> schema, extracted |-> extracted, log |-> log, deep |-> deep]

\* The one element of a singleton set; { F(r) : r \in {e} } computes e once.
The(S) == CHOOSE y \in S : TRUE

RECURSIVE typeToJsonSchema(_, _, _, _, _)
RECURSIVE ObjectMembers(_, _, _, _, _)
RECURSIVE UnionSchema(_, _, _, _, _)

\* schema.properties[propName] = propSchema; required.push(propName)
\* unless the member is optional
MemberStep(acc, prop, r) ==
    [properties |-> (prop.name :> r.schema) @@ acc.properties,
     required   |-> IF prop.optional THEN acc.required ELSE Append(acc.required, prop.name),
     extracted  |-> r.extracted,
     log        |-> acc.log \o r.log,
     deep       |-> Max(acc.deep, r.deep)]

\* properties.forEach: each member is resolved with a copy of the visited
\* set and checkForTypeReferences = true; the registry is shared, so a
\* store made for one member is seen by the next.
ObjectMembers(props, i, acc, visitedTypes, depth) ==
    IF i > Len(props) THEN acc
    ELSE The({ObjectMembers(props, i + 1, next, visitedTypes, depth) :
                next \in {MemberStep(acc, props[i], r) :
                    r \in {typeToJsonSchema(props[i].type, acc.extracted,
                                            visitedTypes, TRUE, depth + 1)}}})

\* { type: 'object', properties, additionalProperties: false } and
\* required when it is not empty
ObjectSchema(m) ==
    LET schema == [type |-> "object", properties |-> m.properties,
                   additionalProperties |-> FALSE]
    IN Returned(IF m.required # <<>> THEN schema @@ [required |-> m.required] ELSE schema,
                m.extracted, m.log, m.deep)

\* result.nullable = true
MarkNullable(r) == Returned(r.schema @@ [nullable |-> TRUE], r.extracted, r.log, r.deep)

\* The union branches.  A union of string literals only is an enum; any
\* other union with a member is answered with the schema of its first
\* member; the later branch for a union of one type and null is reached
\* only by a union the first branch has not answered.
UnionSchema(type, extracted, visitedTypes, check, depth) ==
    IF type.types # <<>> /\ \A i \in 1..Len(type.types) : type.types[i].k = "lit"
    THEN Returned([type |-> "string",
                   enum |-> [i \in 1..Len(type.types) |-> type.types[i].value]],
                  extracted, <<>>, depth)
    ELSE IF Len(type.types) > 0
    THEN typeToJsonSchema(type.types[1], extracted, visitedTypes, check, depth + 1)
    ELSE IF Len(NonNullTypes(type.types)) = 1 /\ Len(type.types) = 2
    THEN The({MarkNullable(r) :
                r \in {typeToJsonSchema(NonNullTypes(type.types)[1], extracted,
                                        visitedTypes, check, depth + 1)}})
    ELSE Returned([type |-> "object"], extracted, <<>>, depth)

\* The structural part of typeToJsonSchema: primitives, unions, arrays,
\* interfaces.
StructuralSchema(type, extracted, visitedTypes, check, depth) ==
    CASE type.k = "prim" -> Returned([type |-> type.t], extracted, <<>>, depth)
      [] type.k = "lit" -> Returned([type |-> "string"], extracted, <<>>, depth)
      [] type.k = "null" -> Returned([type |-> "null"], extracted, <<>>, depth)
      [] type.k = "union" -> UnionSchema(type, extracted, visitedTypes, check, depth)
      [] type.k = "arr" ->
            The({Returned([type |-> "array", items |-> r.schema],
                          r.extracted, r.log, r.deep) :
                    r \in {typeToJsonSchema(type.of, extracted, visitedTypes,
                                            check, depth + 1)}})
      [] type.k = "ref" ->
            The({ObjectSchema(m) :
                    m \in {ObjectMembers(DeclarationOf(type.n).props, 1,
                              [properties |-> <<>>, required |-> <<>>,
                               extracted |-> extracted, log |-> <<>>, deep |-> depth],
                              visitedTypes, depth)}})

\* extractedSchemas[typeName] = referencedSchema; return a copy of it
StoreAndReturn(typeName, r) ==
    Returned(r.schema, StoreSchema(r.extracted, typeName, r.schema),
             Append(r.log, [name |-> typeName, schema |-> r.schema,
                            how |-> "extracted"]), r.deep)

typeToJsonSchema(type, extracted, visitedTypes, check, depth) ==
    LET typeName == TypeNameOf(type)
    IN IF depth > StackLimit
       THEN Returned([type |-> "object"], extracted, <<>>, depth)
       ELSE IF check /\ typeName \in DeclaredNames
       THEN IF typeName \in DOMAIN extracted
            THEN Returned(extracted[typeName], extracted,
                          <<[name |-> typeName, schema |-> extracted[typeName],
                             how |-> "memoized"]>>, depth)
            ELSE IF Circular(typeName, visitedTypes)
            THEN Returned(RefNode(typeName), extracted, <<>>, depth)
            ELSE The({StoreAndReturn(typeName, r) :
                        r \in {typeToJsonSchema(DeclaredType(typeName), extracted,
                                    visitedTypes \cup {typeName}, FALSE, depth + 1)}})
       ELSE StructuralSchema(type, extracted, visitedTypes, check, depth)

InitTypes ==
    /\ typeDecls \in TypeFiles
    /\ schemas = <<>>
    /\ declIdx = 1
    /\ requests = <<>>
    /\ maxDepth = 0
    /\ tpc = "pass"
    /\ RouteIdle
    /\ PathIdle
    /\ CtrlIdle
    /\ LaterIdle

\* One interface or alias declaration of the second pass: visitedSet =
\* {name}, extractInterfaceSchema / extractTypeAliasSchema resolves the
\* declared type without the reference check, schemas[name] = schema.
ExtractDeclaration ==
    /\ tpc = "pass"
    /\ declIdx <= Len(typeDecls)
    /\ \E r \in {typeToJsonSchema(DeclaredType(typeDecls[declIdx].name), schemas,
                                  {typeDecls[declIdx].name}, FALSE, 1)} :
          /\ schemas' = StoreSchema(r.extracted, typeDecls[declIdx].name, r.schema)
          /\ requests' = requests \o r.log
          /\ maxDepth' = Max(maxDepth, r.deep)
    /\ declIdx' = declIdx + 1
    /\ UNCHANGED <<typeDecls, tpc>>
    /\ UNCHANGED <<routeVars, pathVars, ctrlVars>>
    /\ UNCHANGED laterVars

\* return schemas
ReturnSchemas ==
    /\ tpc = "pass"
    /\ declIdx > Len(typeDecls)
    /\ tpc' = "done"
    /\ UNCHANGED <<typeDecls, schemas, declIdx, requests, maxDepth>>
    /\ UNCHANGED <<routeVars, pathVars, ctrlVars>>
    /\ UNCHANGED laterVars

NextTypes == ExtractDeclaration \/ ReturnSchemas

SpecTypes == InitTypes /\ [][NextTypes]_vars /\ WF_vars(NextTypes)

\* Files with alias declarations: interface Team, with or without a member
\* of a union type, and before or after it up to MaxAliases declarations
\*   type Nick = <union>;  type Role = <union>;  ...
AliasNames == <<"Nick", "Role", "Kind">>

UnionOptions ==
    {<<StringType, NullType>>, <<NullType, StringType>>,
     <<RefType("Team"), NullType>>, <<NullType, RefType("Team")>>,
     <<StringLiteral("a"), StringLiteral("b")>>,
     <<StringLiteral("a"), StringType>>}

AliasDecl(name, types) == [name |-> name, type |-> UnionType(types, name)]

TeamOptions ==
    {InterfaceDecl("Team", extra) :
        extra \in {<<>>,
                   <<Prop("nick", UnionType(<<StringType, NullType>>, ""), FALSE)>>,
                   <<Prop("owner", UnionType(<<RefType("Team"), NullType>>, "Nick"), TRUE)>>}}

UnionFiles ==
    UNION {{IF first THEN <<team>> \o [i \in 1..n |-> AliasDecl(AliasNames[i], f[i])]
                     ELSE [i \in 1..n |-> AliasDecl(AliasNames[i], f[i])] \o <<team>> :
                f \in [1..n -> UnionOptions], team \in TeamOptions, first \in BOOLEAN} :
           n \in {m \in 1..MaxAliases : m <= Len(AliasNames)}}

InitUnions ==
    /\ typeDecls \in {d \in UnionFiles :
            \A i \in 1..Len(d) : \A j \in 1..(IF "props" \in DOMAIN d[i] THEN Len(d[i].props) ELSE 0) :
                d[i].props[j].type.k = "union" /\ d[i].props[j].type.alias # "" =>
                    \E a \in 1..Len(d) : /\ d[a].name = d[i].props[j].type.alias
                                          /\ d[a].type = d[i].props[j].type}
    /\ schemas = <<>>
    /\ declIdx = 1
    /\ requests = <<>>
    /\ maxDepth = 0
    /\ tpc = "pass"
    /\ RouteIdle
    /\ PathIdle
    /\ CtrlIdle
    /\ LaterIdle

SpecUnions == InitUnions /\ [][NextTypes]_vars /\ WF_vars(NextTypes)

\* the member of interface n, declared with the type "type", if it has one
HasMember(n, member, type) ==
    \E j \in 1..Len(DeclarationOf(n).props) :
        /\ DeclarationOf(n).props[j].name = member
        /\ DeclarationOf(n).props[j].type = type

MemberNames(n) == {DeclarationOf(n).props[j].name : j \in 1..Len(DeclarationOf(n).props)}

C9_SelfReferenceIsNamedReference ==
    tpc = "done" =>
        \A n \in DeclaredNames :
            HasMember(n, "manager", RefType(n)) =>
                /\ n \in DOMAIN schemas
                /\ DOMAIN schemas[n].properties = MemberNames(n)
                /\ schemas[n].properties["manager"] = RefNode(n)

(***************************************************************************)
(* C10 as claimed: when the same declared type name is requested twice in  *)
(* one run, the second request is answered with a schema structurally      *)
(* identical to the answer to the first.                                   *)
(***************************************************************************)
C10_SecondRequestIdentical ==
    \A i \in 1..Len(requests), j \in 1..Len(requests) :
        requests[i].name = requests[j].name => requests[i].schema = requests[j].schema

(***************************************************************************)
(* C11 as claimed: a declared union type with exactly two members, one of  *)
(* them null and the other a non-null type T, resolves to T's schema with  *)
(* nullable = true (for T = string: type string, nullable true).           *)
(***************************************************************************)
C11_NullableUnion ==
    tpc = "done" =>
        \A i \in 1..Len(typeDecls) :
            LET d == typeDecls[i]
            IN (/\ ~IsInterface(d)
                /\ Len(d.type.types) = 2
                /\ Len(NonNullTypes(d.type.types)) = 1) =>
                    /\ d.name \in DOMAIN schemas
                    /\ "nullable" \in DOMAIN schemas[d.name]
                    /\ schemas[d.name].nullable = TRUE
                    /\ NonNullTypes(d.type.types)[1] = StringType =>
                            schemas[d.name].type = "string"

(***************************************************************************)
(* cleanJsonSchema (joiExtractor).                                         *)
(*                                                                         *)
(* A JSON schema is a record that has a field for each key the object has. *)
(* The value of "type" is a record: "array" says whether it is a list and  *)
(* "names" gives the type name(s).  JsNull stands for the value null in an *)
(* enum list.  The schemas handed over are those of the 'open-api-3.1'     *)
(* conversion: null is written as a member of a type list or of an enum    *)
(* list, and no node carries a nullable key.                               *)
(***************************************************************************)
JsNull == "#null"

TypeName(t) == [array |-> FALSE, names |-> <<t>>]
TypeList(ts) == [array |-> TRUE, names |-> ts]

Has(schema, key) == key \in DOMAIN schema

LeafSchemas ==
    {[type |-> TypeName("string")],
     [type |-> TypeName("string"), minLength |-> 1, format |-> "email"],
     [type |-> TypeList(<<"string", "null">>)],
     [type |-> TypeList(<<"null", "number">>), minimum |-> 0],
     [type |-> TypeList(<<"string", "number", "null">>)],
     [type |-> TypeList(<<"string", "number">>)],
     [type |-> TypeName("string"), enum |-> <<"a", "b", JsNull>>],
     [type |-> TypeList(<<"string", "null">>), enum |-> <<"a", JsNull, "b">>],
     [type |-> TypeName("string"), enum |-> <<"a", "b">>, default |-> "a"]}

\* The schemas built over a set of schemas: an object with one property,
\* an array, and the three kinds of composite list.
Composites(S) ==
    {[type |-> TypeName("object"), properties |-> [field |-> x],
      required |-> <<"field">>] : x \in S}
        \cup {[type |-> TypeName("array"), items |-> x] : x \in S}
        \cup {[oneOf |-> <<x>>] : x \in S}
        \cup {[anyOf |-> <<[type |-> TypeName("number")], x>>] : x \in S}
        \cup {[allOf |-> <<x>>, description |-> "all"] : x \in S}

RECURSIVE RawSchemas(_)
RawSchemas(depth) ==
    IF depth = 0 THEN LeafSchemas
    ELSE LeafSchemas \cup Composites(RawSchemas(depth - 1))

\* schema.type.filter(t => t !== 'null')
NonNullNames(names) == SelectSeq(names, LAMBDA t : t # "null")

\* schema.enum.filter(v => v !== null)
EnumUnfiltered(values) == values

EnumWithoutNull(values) == SelectSeq(values, LAMBDA v : v # JsNull)

SeqIncludes(seq, v) == \E i \in 1..Len(seq) : seq[i] = v

\* the keys copied as they are
CopiedKeys == {"format", "pattern", "minLength", "maxLength", "minimum", "maximum",
               "default", "description", "example", "nullable"}

\* if (schema.type !== undefined) ...
CleanType(schema) ==
    IF ~Has(schema, "type") THEN <<>>
    ELSE IF schema.type.array
    THEN LET hasNull == SeqIncludes(schema.type.names, "null")
             nonNullTypes == NonNullNames(schema.type.names)
         IN IF hasNull /\ Len(nonNullTypes) = 1
            THEN [type |-> TypeName(nonNullTypes[1]), nullable |-> TRUE]
            ELSE IF hasNull /\ Len(nonNullTypes) > 1
            THEN [oneOf |-> [i \in 1..Len(nonNullTypes) |-> [type |-> TypeName(nonNullTypes[i])]]
                                \o <<[type |-> TypeName("null")]>>]
            ELSE [type |-> schema.type]
    ELSE [type |-> schema.type]

\* if (schema.enum !== undefined) ...
CleanEnum(schema) ==
    IF ~Has(schema, "enum") THEN <<>>
    ELSE IF SeqIncludes(schema.enum, JsNull)
    THEN [enum |-> EnumWithoutNull(schema.enum), nullable |-> TRUE]
    ELSE [enum |-> schema.enum]

\* if (schema.nullable !== undefined) cleaned.nullable = schema.nullable
NullableDropped(schema) == <<>>

PreserveNullable(schema) ==
    IF Has(schema, "nullable") THEN [nullable |-> schema.nullable] ELSE <<>>

RECURSIVE cleanJsonSchema(_)

\* schema.oneOf.map(s => cleanJsonSchema(s)), and the same for anyOf, allOf
KeepMembers(members) == members

CleanMembers(members) == [i \in 1..Len(members) |-> cleanJsonSchema(members[i])]

\* The assignments to "cleaned" in the order of the code; a later
\* assignment to a key replaces an earlier one, so the later part stands
\* to the left.
cleanJsonSchema(schema) ==
    (IF Has(schema, "allOf") THEN [allOf |-> CleanMembers(schema.allOf)] ELSE <<>>)
    @@ (IF Has(schema, "anyOf") THEN [anyOf |-> CleanMembers(schema.anyOf)] ELSE <<>>)
    @@ (IF Has(schema, "oneOf") THEN [oneOf |-> CleanMembers(schema.oneOf)] ELSE <<>>)
    @@ PreserveNullable(schema)
    @@ [k \in {"default", "description", "example"} \cap DOMAIN schema |-> schema[k]]
    @@ CleanEnum(schema)
    @@ [k \in {"format", "pattern", "minLength", "maxLength", "minimum", "maximum"}
                \cap DOMAIN schema |-> schema[k]]
    @@ (IF Has(schema, "items") THEN [items |-> cleanJsonSchema(schema.items)] ELSE <<>>)
    @@ (IF Has(schema, "required") THEN [required |-> schema.required] ELSE <<>>)
    @@ (IF Has(schema, "properties")
        THEN [properties |-> [key \in DOMAIN schema.properties |->
                                    cleanJsonSchema(schema.properties[key])]]
        ELSE <<>>)
    @@ CleanType(schema)

exceptCleanVars == <<earlierVars, endpointVars, lastVars>>

EarlierIdle == RouteIdle /\ PathIdle /\ CtrlIdle /\ TypeIdle

InitClean ==
    /\ rawSchema \in RawSchemas(MaxSchemaDepth)
    /\ cleaned = <<>>
    /\ kpc = "call"
    /\ EarlierIdle
    /\ EndpointIdle
    /\ LastIdle

\* const openApiSchema = cleanJsonSchema(jsonSchema)
CleanSchema ==
    /\ kpc = "call"
    /\ cleaned' = cleanJsonSchema(rawSchema)
    /\ kpc' = "done"
    /\ UNCHANGED rawSchema
    /\ UNCHANGED exceptCleanVars

NextClean == CleanSchema

SpecClean == InitClean /\ [][NextClean]_vars

\* the nodes of a schema directly below a node: its properties, its items
\* and the members of its oneOf, anyOf and allOf lists, each with the
\* place it stands at
ChildPlaces(schema) ==
    (IF Has(schema, "properties")
     THEN {<<"properties", key>> : key \in DOMAIN schema.properties} ELSE {})
    \cup (IF Has(schema, "items") THEN {<<"items", "">>} ELSE {})
    \cup UNION {IF Has(schema, list) THEN {<<list, i>> : i \in 1..Len(schema[list])} ELSE {} :
                    list \in {"oneOf", "anyOf", "allOf"}}

ChildAt(schema, place) ==
    IF place[1] = "properties" THEN schema.properties[place[2]]
    ELSE IF place[1] = "items" THEN schema.items
    ELSE schema[place[1]][place[2]]

IsNullableTypeList(schema) ==
    /\ Has(schema, "type")
    /\ schema.type.array
    /\ SeqIncludes(schema.type.names, "null")
    /\ Len(NonNullNames(schema.type.names)) = 1

HasNullInEnum(schema) == Has(schema, "enum") /\ SeqIncludes(schema.enum, JsNull)

RECURSIVE Nodes(_, _)
\* the nodes of the schema that stand at least "below" levels down
Nodes(schema, below) ==
    (IF below <= 0 THEN {schema} ELSE {})
    \cup UNION {Nodes(ChildAt(schema, place), below - 1) : place \in ChildPlaces(schema)}

RECURSIVE NodePairs(_, _)
\* every node of the raw schema with the node at its place in the output
\* (<<>> when the output has no node there)
NodePairs(raw, out) ==
    {<<raw, out>>}
    \cup UNION {IF place \in ChildPlaces(out)
                THEN NodePairs(ChildAt(raw, place), ChildAt(out, place))
                ELSE {<<ChildAt(raw, place), <<>> >>} :
                    place \in ChildPlaces(raw)}

\* the node's enum list lost its null and the node is nullable
EnumNullRemoved(raw, out) ==
    HasNullInEnum(raw) =>
        /\ Has(out, "enum")
        /\ out.enum = SelectSeq(raw.enum, LAMBDA v : v # JsNull)
        /\ Has(out, "nullable") /\ out.nullable = TRUE

(***************************************************************************)
(* C13: for every node of the validation schema whose enum list contains   *)
(* null, the converted node has the enum list with null removed, the other *)
(* values in their order, and nullable = true.                             *)
(***************************************************************************)
C13_EnumNullBecomesNullable ==
    kpc = "done" =>
        \A pair \in NodePairs(rawSchema, cleaned) : EnumNullRemoved(pair[1], pair[2])

\* ['a','b', null] below an object's property was converted
C13_Witness ==
    /\ kpc = "done"
    /\ Has(rawSchema, "properties")
    /\ Has(rawSchema.properties["field"], "enum")
    /\ rawSchema.properties["field"].enum = <<"a", "b", JsNull>>
    /\ cleaned.properties["field"].enum = <<"a", "b">>

\* a type list [X, 'null'] became type X, nullable
TypeListConverted(raw, out) ==
    IsNullableTypeList(raw) =>
        /\ Has(out, "type")
        /\ out.type = TypeName(NonNullNames(raw.type.names)[1])
        /\ Has(out, "nullable") /\ out.nullable = TRUE

NoNullableTypeList(out) == ~IsNullableTypeList(out)

(***************************************************************************)
(* C14: at every nesting depth (properties, items, oneOf/anyOf/allOf) a    *)
(* type written as the list [X, 'null'] is emitted as type X with          *)
(* nullable = true, and no node of the output has a type list of that      *)
(* form.                                                                   *)
(***************************************************************************)
C14_NullableTypeListsConverted ==
    kpc = "done" =>
        /\ \A pair \in NodePairs(rawSchema, cleaned) : TypeListConverted(pair[1], pair[2])
        /\ \A node \in Nodes(cleaned, 0) : NoNullableTypeList(node)

\* a type list two levels down, below a composite list, was converted
C14_Witness ==
    /\ kpc = "done"
    /\ \E list \in {"oneOf", "anyOf", "allOf"} :
        /\ Has(rawSchema, list)
        /\ \E i \in 1..Len(rawSchema[list]) :
            \E node \in Nodes(rawSchema[list][i], 1) : IsNullableTypeList(node)

(***************************************************************************)
(* generateSwaggerEndpoint and loadJoiSchemaFromValidator.                 *)
(*                                                                         *)
(* A route path and a handler name are the sequences of the words they are *)
(* spelled with, lower-cased, so that includes('login') is: 'login' is one *)
(* of the words.  A validation-schema reference is the sequence of the     *)
(* parts schemaRef.split('.') gives, <<>> when the route has none.  Field  *)
(* names are character sequences, as for analyzeControllerMethod.          *)
(***************************************************************************)
nUsername == <<"u", "s", "e", "r", "n", "a", "m", "e">>
nAmount == <<"a", "m", "o", "u", "n", "t">>
nCurrency == <<"c", "u", "r", "r", "e", "n", "c", "y">>
nDescription == <<"d", "e", "s", "c", "r", "i", "p", "t", "i", "o", "n">>
nFirstName == <<"f", "i", "r", "s", "t", "N", "a", "m", "e">>
nLastName == <<"l", "a", "s", "t", "N", "a", "m", "e">>
nData == <<"d", "a", "t", "a">>

IsUndefined(x) == DOMAIN x = {}

\* path and controllerMethod of the routes of the model
RouteTargets ==
    {[path |-> <<"/", "auth", "/", "login">>, controllerMethod |-> <<"login">>],
     [path |-> <<"/", "auth", "/", "register">>, controllerMethod |-> <<"register">>],
     [path |-> <<"/", "payment", "s">>, controllerMethod |-> <<"create", "payment">>],
     [path |-> <<"/", "user", "s", "/", "{id}">>, controllerMethod |-> <<"update", "user">>],
     [path |-> <<"/", "transaction", "s">>, controllerMethod |-> <<"anonymous">>],
     [path |-> <<"/", "items">>, controllerMethod |-> <<"create", "item">>]}

SchemaRefs == {<<>>, <<"register">>, <<"authSchemas", "register">>}

RouteInfos ==
    {[method |-> m, path |-> t.path, controllerMethod |-> t.controllerMethod,
      validatorSchema |-> v, hasAuth |-> a] :
        m \in {"GET", "POST", "PUT"}, t \in RouteTargets, v \in SchemaRefs, a \in BOOLEAN}

Field(name, type) == [name |-> name, type |-> type, required |-> TRUE]

\* what analyzeControllerMethod returns: requestBodyType is set together
\* with requestBodyFields
Analysis(statusCodeList, fields) ==
    [statusCodes |-> statusCodeList, requestBodyFields |-> fields,
     requestBodyType |-> [i \in 1..Len(fields) |-> fields[i].name]]

ControllerInfos ==
    {<<>>,
     Analysis(<<200>>, <<>>),
     Analysis(<<400, 200>>, <<Field(nEmail, "string (email)"),
                              Field(nPassword, "string (password)")>>),
     Analysis(<<201, 401, 500>>, <<Field(nAmount, "number"), Field(nNote, "string")>>),
     Analysis(<<204, 404>>, <<Field(nLimit, "number")>>)}

\* The exports of a validator module: a group is a record of members; a
\* member is a Joi schema or some other value.
JoiObject == [kind |-> "joi"]
\* a Joi schema told apart by the place it is exported at
JoiAt(place) == [kind |-> "joi", at |-> place]
TextValue == [kind |-> "string"]
Group(members) == [kind |-> "group", members |-> members]

ValidatorModules ==
    {[authSchemas |-> Group([register |-> JoiObject])],
     [register |-> JoiObject],
     [auth |-> Group([register |-> JoiObject])],
     [authSchemas |-> Group([login |-> JoiObject])],
     [authSchemas |-> Group([register |-> TextValue])],
     [authSchemas |-> TextValue, register |-> JoiObject],
     [auth |-> Group([register |-> JoiAt("auth.register")]),
      register |-> JoiAt("register")],
     [authSchemas |-> Group([register |-> JoiAt("authSchemas.register")]),
      auth |-> Group([register |-> JoiAt("auth.register")]),
      register |-> JoiAt("register")]}

\* schemaGroup.replace('Schemas', '')
WithoutSchemas(group) == IF group = "authSchemas" THEN "auth" ELSE group

\* validatorModule[group] && validatorModule[group][name]
Member(module, group, name) ==
    IF /\ group \in DOMAIN module
       /\ module[group].kind = "group"
       /\ name \in DOMAIN module[group].members
    THEN module[group].members[name]
    ELSE <<>>

\* the lookup in the order the spec gives: under the group, under the
\* group name without 'Schemas', as a direct export
FindJoiSchemaDirectLast(module, schemaGroup, schemaName) ==
    IF ~IsUndefined(Member(module, schemaGroup, schemaName))
    THEN Member(module, schemaGroup, schemaName)
    ELSE IF ~IsUndefined(Member(module, WithoutSchemas(schemaGroup), schemaName))
    THEN Member(module, WithoutSchemas(schemaGroup), schemaName)
    ELSE IF schemaName \in DOMAIN module THEN module[schemaName]
    ELSE <<>>

\* The member looked up: under the group, as a direct export, under the
\* group name without 'Schemas'; <<>> when there is none.
FindJoiSchema(module, schemaGroup, schemaName) ==
    IF ~IsUndefined(Member(module, schemaGroup, schemaName))
    THEN Member(module, schemaGroup, schemaName)
    ELSE IF schemaName \in DOMAIN module THEN module[schemaName]
    ELSE Member(module, WithoutSchemas(schemaGroup), schemaName)

\* What becomes of an exception raised at a place of the loader: the try
\* around require('ts-node') and the try around the conversion return
\* null, the try around tsNode.register goes on, and the try around the
\* whole body returns null for the rest.
NoOuterCatch(site) ==
    CASE site = "tsnode" -> "null"
      [] site = "register" -> "continue"
      [] site = "convert" -> "null"
      [] OTHER -> "escape"

CatchOf(site) ==
    CASE site = "tsnode" -> "null"
      [] site = "register" -> "continue"
      [] site = "convert" -> "null"
      [] OTHER -> "null"

BodyMethods == {"POST", "PUT", "PATCH"}

exceptEndpointVars == <<earlierVars, cleanVars, lastVars>>

InitEndpoint ==
    /\ route \in RouteInfos
    /\ controllerInfo \in ControllerInfos
    /\ smartDefaults \in BOOLEAN
    /\ epc = "status"
    /\ codes = <<>>
    /\ validatorModule = <<>>
    /\ joiSchema = <<>>
    /\ joiSchemaObj = <<>>
    /\ joiFailure = "none"
    /\ raised = FALSE
    /\ requestSchema = <<>>
    /\ responses = <<>>
    /\ EarlierIdle
    /\ CleanIdle
    /\ LastIdle

\* What a write to the array statusCodes does to controllerInfo: the
\* array is controllerInfo.statusCodes itself when there is an analysis,
\* and a fresh [200, 400, 500] when there is none.
WriteStatusCodes(info, written) ==
    IF IsUndefined(info) THEN info
    ELSE [info EXCEPT !.statusCodes = written]

\* const statusCodes = controllerInfo?.statusCodes || [200, 400, 500];
\* push 401 when the route has auth and 401 is not included; then on to
\* the request body (POST/PUT/PATCH) or to the responses
GenStatusCodes ==
    /\ epc = "status"
    /\ LET statusCodeList == IF IsUndefined(controllerInfo) THEN <<200, 400, 500>>
                             ELSE controllerInfo.statusCodes
       IN codes' = IF route.hasAuth /\ ~SeqIncludes(statusCodeList, 401)
                   THEN Append(statusCodeList, 401)
                   ELSE statusCodeList
    /\ controllerInfo' = WriteStatusCodes(controllerInfo, codes')
    /\ epc' = IF route.method \in BodyMethods
              THEN (IF route.validatorSchema # <<>> THEN "split" ELSE "body")
              ELSE "responses"
    /\ UNCHANGED <<route, smartDefaults, validatorModule, joiSchema,
                   joiSchemaObj, joiFailure, raised, requestSchema, responses>>
    /\ UNCHANGED exceptEndpointVars

\* The loader returns null after the failure "why", or the exception
\* raised at "site" goes where CatchOf says.
ReturnNull(why) ==
    /\ joiSchemaObj' = <<>>
    /\ joiFailure' = why
    /\ epc' = "body"
    /\ UNCHANGED raised

Throw(site, why, goOn) ==
    IF CatchOf(site) = "escape"
    THEN /\ raised' = TRUE
         /\ epc' = "rejected"
         /\ joiFailure' = why
         /\ UNCHANGED joiSchemaObj
    ELSE IF CatchOf(site) = "continue"
    THEN /\ epc' = goOn
         /\ UNCHANGED <<joiSchemaObj, joiFailure, raised>>
    ELSE ReturnNull(why)

\* const parts = schemaRef.split('.'); if (parts.length < 2) return null
JoiSplit ==
    /\ epc = "split"
    /\ IF Len(route.validatorSchema) < 2
       THEN ReturnNull("no split")
       ELSE /\ epc' = "find"
            /\ UNCHANGED <<joiSchemaObj, joiFailure, raised>>
    /\ UNCHANGED <<route, controllerInfo, smartDefaults, codes, validatorModule,
                   joiSchema, requestSchema, responses>>
    /\ UNCHANGED exceptEndpointVars

\* the search for the validator file among the candidates
JoiFindFile ==
    /\ epc = "find"
    /\ \E outcome \in {"found", "missing", "throws"} :
        CASE outcome = "found" ->
                /\ epc' = "tsnode"
                /\ UNCHANGED <<joiSchemaObj, joiFailure, raised>>
          [] outcome = "missing" -> ReturnNull("file not found")
          [] outcome = "throws" -> Throw("pathExists", "file error", "tsnode")
    /\ UNCHANGED <<route, controllerInfo, smartDefaults, codes, validatorModule,
                   joiSchema, requestSchema, responses>>
    /\ UNCHANGED exceptEndpointVars

\* require('ts-node') and tsNode.register(...)
JoiTsNode ==
    /\ epc = "tsnode"
    /\ \E outcome \in {"registered", "unavailable", "register throws"} :
        CASE outcome = "registered" ->
                /\ epc' = "require"
                /\ UNCHANGED <<joiSchemaObj, joiFailure, raised>>
          [] outcome = "unavailable" -> Throw("tsnode", "loader unavailable", "require")
          [] outcome = "register throws" -> Throw("register", "register error", "require")
    /\ UNCHANGED <<route, controllerInfo, smartDefaults, codes, validatorModule,
                   joiSchema, requestSchema, responses>>
    /\ UNCHANGED exceptEndpointVars

\* const validatorModule = require(modulePath)
JoiRequire ==
    /\ epc = "require"
    /\ \/ /\ Throw("require", "module load error", "lookup")
          /\ UNCHANGED validatorModule
       \/ /\ validatorModule' \in ValidatorModules
          /\ epc' = "lookup"
          /\ UNCHANGED <<joiSchemaObj, joiFailure, raised>>
    /\ UNCHANGED <<route, controllerInfo, smartDefaults, codes, joiSchema,
                   requestSchema, responses>>
    /\ UNCHANGED exceptEndpointVars

\* the lookup of the member and the test that it is an object or function
JoiLookup ==
    /\ epc = "lookup"
    /\ LET found == FindJoiSchema(validatorModule, route.validatorSchema[1],
                                  route.validatorSchema[Len(route.validatorSchema)])
       IN IF IsUndefined(found)
          THEN ReturnNull("member not found") /\ UNCHANGED joiSchema
          ELSE IF found.kind = "string"
          THEN ReturnNull("not a schema") /\ UNCHANGED joiSchema
          ELSE /\ joiSchema' = found
               /\ epc' = "convert"
               /\ UNCHANGED <<joiSchemaObj, joiFailure, raised>>
    /\ UNCHANGED <<route, controllerInfo, smartDefaults, codes, validatorModule,
                   requestSchema, responses>>
    /\ UNCHANGED exceptEndpointVars

\* the JSON schemas joiToJsonParse gives for the Joi schemas of the model
ParsedSchemas ==
    {[type |-> TypeName("object"),
      properties |-> [email |-> [type |-> TypeName("string"), format |-> "email"],
                      nickname |-> [type |-> TypeList(<<"string", "null">>)]],
      required |-> <<"email">>],
     [type |-> TypeName("object"),
      properties |-> [role |-> [type |-> TypeName("string"),
                                enum |-> <<"admin", "user", JsNull>>]]]}

\* joiToJsonParse(joiSchema, 'open-api-3.1', ...), cleanJsonSchema,
\* return { schema: openApiSchema }
JoiConvert ==
    /\ epc = "convert"
    /\ \/ Throw("convert", "conversion error", "body")
       \/ \E jsonSchema \in ParsedSchemas :
            /\ joiSchemaObj' = [schema |-> cleanJsonSchema(jsonSchema)]
            /\ epc' = "body"
            /\ UNCHANGED <<joiFailure, raised>>
    /\ UNCHANGED <<route, controllerInfo, smartDefaults, codes, validatorModule,
                   joiSchema, requestSchema, responses>>
    /\ UNCHANGED exceptEndpointVars

\* mapToSwaggerType, on the type strings inferFieldType returns
mapToSwaggerType(typeString) ==
    CASE typeString = "number" -> "number"
      [] typeString = "boolean" -> "boolean"
      [] OTHER -> "string"

SmartField(name, type, description, required) ==
    [name |-> name, type |-> type, description |-> description, required |-> required]

WordIncludes(words, w) == \E i \in 1..Len(words) : words[i] = w

\* generateSmartDefaults(route)
generateSmartDefaults(r) ==
    LET method == MethodLower(r.method)
        inPathOrName(w) == WordIncludes(r.path, w) \/ WordIncludes(r.controllerMethod, w)
        fields ==
            (IF inPathOrName("login")
             THEN <<SmartField(nEmail, "string", "User email address", TRUE),
                    SmartField(nPassword, "string", "User password", TRUE)>>
             ELSE <<>>)
            \o (IF inPathOrName("register")
                THEN <<SmartField(nEmail, "string", "User email address", TRUE),
                       SmartField(nPassword, "string", "User password", TRUE),
                       SmartField(nUsername, "string", "Username", FALSE)>>
                ELSE <<>>)
            \o (IF inPathOrName("payment")
                THEN <<SmartField(nAmount, "number", "Payment amount in cents", TRUE),
                       SmartField(nCurrency, "string", "Currency code (e.g., usd)", FALSE),
                       SmartField(nDescription, "string", "Payment description", FALSE)>>
                ELSE <<>>)
            \o (IF WordIncludes(r.path, "user") /\ method \in {"post", "put"}
                THEN <<SmartField(nEmail, "string", "User email", FALSE),
                       SmartField(nUsername, "string", "Username", FALSE),
                       SmartField(nFirstName, "string", "First name", FALSE),
                       SmartField(nLastName, "string", "Last name", FALSE)>>
                ELSE <<>>)
            \o (IF WordIncludes(r.path, "transaction")
                THEN <<SmartField(nAmount, "number", "Transaction amount", TRUE),
                       SmartField(nDescription, "string", "Transaction description", FALSE)>>
                ELSE <<>>)
    IN IF method = "post" /\ fields = <<>>
       THEN <<SmartField(nData, "object", "Request data", TRUE)>>
       ELSE fields

\* fieldMap, a Map in insertion order: has and set
MapHas(fieldMap, name) == \E i \in 1..Len(fieldMap) : fieldMap[i].name = name

MapSet(fieldMap, field) ==
    IF MapHas(fieldMap, field.name)
    THEN [i \in 1..Len(fieldMap) |->
            IF fieldMap[i].name = field.name THEN field ELSE fieldMap[i]]
    ELSE Append(fieldMap, field)

RECURSIVE MapSetAll(_, _, _)
MapSetAll(fieldMap, fields, i) ==
    IF i > Len(fields) THEN fieldMap
    ELSE MapSetAll(MapSet(fieldMap, fields[i]), fields, i + 1)

\* the controller-detected fields, or the names of requestBodyType when
\* there are no fields
ControllerFields(info) ==
    IF IsUndefined(info) THEN <<>>
    ELSE IF Len(info.requestBodyFields) > 0
    THEN MapSetAll(<<>>,
            [i \in 1..Len(info.requestBodyFields) |->
                SmartField(info.requestBodyFields[i].name,
                           mapToSwaggerType(info.requestBodyFields[i].type),
                           info.requestBodyFields[i].type,
                           info.requestBodyFields[i].required)], 1)
    ELSE MapSetAll(<<>>,
            [i \in 1..Len(info.requestBodyType) |->
                SmartField(info.requestBodyType[i],
                           mapToSwaggerType(InferFieldType(info.requestBodyType[i], <<>>, 1)),
                           InferFieldType(info.requestBodyType[i], <<>>, 1),
                           TRUE)], 1)

\* if (options.smartDefaults !== false && !hasValidator)
SmartDefaultsWhenEnabled(enabled, hasValidator) == enabled

SmartDefaultsApply(enabled, hasValidator) == enabled /\ ~hasValidator

\* if (!fieldMap.has(field.name)) fieldMap.set(field.name, field)
SetSmartField(fieldMap, field) == MapSet(fieldMap, field)

AddSmartField(fieldMap, field) ==
    IF MapHas(fieldMap, field.name) THEN fieldMap ELSE MapSet(fieldMap, field)

RECURSIVE AddSmartFields(_, _, _)
AddSmartFields(fieldMap, fields, i) ==
    IF i > Len(fields) THEN fieldMap
    ELSE AddSmartFields(AddSmartField(fieldMap, fields[i]), fields, i + 1)

\* allFields: the controller fields, then the smart defaults when they apply
AllFields(r, info, enabled) ==
    IF SmartDefaultsApply(enabled, r.validatorSchema # <<>>)
    THEN AddSmartFields(ControllerFields(info), generateSmartDefaults(r), 1)
    ELSE ControllerFields(info)

\* The request body: the Joi schema when the loader returned one, else an
\* object schema with the properties of allFields and required.
GenRequestBody ==
    /\ epc = "body"
    /\ requestSchema' =
        IF ~IsUndefined(joiSchemaObj)
        THEN [source |-> "validator", schema |-> joiSchemaObj.schema]
        ELSE LET allFields == AllFields(route, controllerInfo, smartDefaults)
             IN [source |-> "fields",
                 properties |-> [i \in 1..Len(allFields) |->
                                    [name |-> allFields[i].name, type |-> allFields[i].type,
                                     description |-> allFields[i].description]],
                 required |-> LET req == SelectSeq(allFields, LAMBDA f : f.required)
                              IN [i \in 1..Len(req) |-> req[i].name]]
    /\ epc' = "responses"
    /\ UNCHANGED <<route, controllerInfo, smartDefaults, codes, validatorModule, joiSchema,
                   joiSchemaObj, joiFailure, raised, responses>>
    /\ UNCHANGED exceptEndpointVars

\* statusCodes.sort(): the codes of the model have three digits, for which
\* the order of sort() is the numeric order
RECURSIVE SortCodes(_)
SortCodes(list) ==
    IF list = <<>> THEN <<>>
    ELSE LET least == CHOOSE i \in 1..Len(list) :
                        /\ \A j \in 1..Len(list) : list[i] <= list[j]
                        /\ \A j \in 1..(i - 1) : list[j] # list[i]
         IN <<list[least]>> \o SortCodes([j \in 1..(Len(list) - 1) |->
                                            IF j < least THEN list[j] ELSE list[j + 1]])

ResponseDescription(code) ==
    IF code >= 400
    THEN CASE code = 400 -> "Bad request"
           [] code = 401 -> "Unauthorized"
           [] code = 403 -> "Forbidden"
           [] code = 404 -> "Not found"
           [] code = 409 -> "Conflict"
           [] code = 500 -> "Internal server error"
           [] OTHER -> "Error"
    ELSE IF code = 201 THEN "Created"
    ELSE IF code = 204 THEN "No content"
    ELSE "Success"

ResponseSchemaType(code) == IF code >= 400 THEN "ErrorResponse" ELSE "ApiResponse"

\* statusCodes.sort().forEach(code => ...)
GenResponses ==
    /\ epc = "responses"
    /\ codes' = SortCodes(codes)
    /\ responses' = [i \in 1..Len(codes) |->
                        [code |-> SortCodes(codes)[i],
                         description |-> ResponseDescription(SortCodes(codes)[i]),
                         schemaType |-> ResponseSchemaType(SortCodes(codes)[i])]]
    /\ controllerInfo' = WriteStatusCodes(controllerInfo, codes')
    /\ epc' = "done"
    /\ UNCHANGED <<route, smartDefaults, validatorModule, joiSchema,
                   joiSchemaObj, joiFailure, raised, requestSchema>>
    /\ UNCHANGED exceptEndpointVars

NextEndpoint ==
    \/ GenStatusCodes
    \/ JoiSplit
    \/ JoiFindFile
    \/ JoiTsNode
    \/ JoiRequire
    \/ JoiLookup
    \/ JoiConvert
    \/ GenRequestBody
    \/ GenResponses

SpecEndpoint == InitEndpoint /\ [][NextEndpoint]_vars

\* the names of the fields the controller analysis found
InferredNames ==
    IF IsUndefined(controllerInfo) THEN {}
    ELSE {controllerInfo.requestBodyFields[i].name :
            i \in 1..Len(controllerInfo.requestBodyFields)}

\* the property written for the i-th field the controller analysis found
InferredProperty(i) ==
    [name |-> controllerInfo.requestBodyFields[i].name,
     type |-> IF controllerInfo.requestBodyFields[i].type \in {"number", "boolean"}
              THEN controllerInfo.requestBodyFields[i].type ELSE "string",
     description |-> controllerInfo.requestBodyFields[i].type]

LoaderFailed == joiFailure # "none"

(***************************************************************************)
(* C12: loadJoiSchemaFromValidator never raises: after every failure it    *)
(* has returned null, and the request schema of the endpoint is then built *)
(* from the fields the controller analysis found.                          *)
(***************************************************************************)
C12_LoaderNeverRaises ==
    /\ ~raised
    /\ epc # "rejected"
    /\ (LoaderFailed /\ epc \in {"body", "responses", "done"}) => IsUndefined(joiSchemaObj)
    /\ (LoaderFailed /\ epc = "done") =>
            /\ requestSchema.source = "fields"
            /\ \A n \in InferredNames :
                \E i \in 1..Len(requestSchema.properties) : requestSchema.properties[i].name = n

\* the validator module failed to load and the request schema was built
\* from the controller's fields
C12_Witness ==
    /\ epc = "done"
    /\ joiFailure = "module load error"
    /\ requestSchema.source = "fields"
    /\ Len(requestSchema.properties) = 2

(***************************************************************************)
(* C15: when the route has a validation-schema reference that could not    *)
(* be resolved, the request schema has no smart-default field: every       *)
(* property is a field the controller analysis found, as it found it.      *)
(***************************************************************************)
C15_NoSmartDefaultsAfterFailedReference ==
    (/\ epc = "done"
     /\ route.method \in BodyMethods
     /\ route.validatorSchema # <<>>
     /\ IsUndefined(joiSchemaObj)) =>
        /\ requestSchema.source = "fields"
        /\ Len(requestSchema.properties) = Cardinality(InferredNames)
        /\ \A i \in 1..Len(requestSchema.properties) :
            requestSchema.properties[i] = InferredProperty(i)

\* a login route with smart defaults enabled, an unresolved reference and
\* no controller analysis: the request schema has no properties
C15_Witness ==
    /\ epc = "done"
    /\ route.method = "POST"
    /\ route.validatorSchema # <<>>
    /\ LoaderFailed
    /\ smartDefaults
    /\ WordIncludes(route.path, "login")
    /\ IsUndefined(controllerInfo)
    /\ requestSchema.properties = <<>>

(***************************************************************************)
(* C16: the request schema is the resolved validation schema alone when    *)
(* the resolution succeeded; otherwise the controller-inferred fields      *)
(* come first and unaltered, and every further property is a smart default *)
(* whose name is not the name of a controller-inferred field.              *)
(***************************************************************************)
C16_RequestSchemaPriority ==
    (epc = "done" /\ route.method \in BodyMethods) =>
        IF ~IsUndefined(joiSchemaObj)
        THEN requestSchema = [source |-> "validator", schema |-> joiSchemaObj.schema]
        ELSE /\ requestSchema.source = "fields"
             /\ Len(requestSchema.properties) >= Cardinality(InferredNames)
             /\ \A i \in 1..Len(requestSchema.properties) :
                    IF i <= Cardinality(InferredNames)
                    THEN requestSchema.properties[i] = InferredProperty(i)
                    ELSE /\ requestSchema.properties[i].name \notin InferredNames
                         /\ \E k \in 1..Len(generateSmartDefaults(route)) :
                                LET d == generateSmartDefaults(route)[k]
                                IN requestSchema.properties[i] =
                                    [name |-> d.name, type |-> d.type,
                                     description |-> d.description]

\* a register route whose controller reads email and password: username is
\* added as a smart default, email stays the controller's
C16_Witness ==
    /\ epc = "done"
    /\ route.method = "POST"
    /\ WordIncludes(route.path, "register")
    /\ requestSchema.source = "fields"
    /\ \E i \in 1..Len(requestSchema.properties) :
        /\ requestSchema.properties[i].name = nEmail
        /\ requestSchema.properties[i].description = "string (email)"
    /\ \E i \in 1..Len(requestSchema.properties) :
        requestSchema.properties[i].name = nUsername

(***************************************************************************)
(* C17 as claimed: the responses have one entry for every status code the  *)
(* controller analysis observed and, when the route requires               *)
(* authentication, an entry for 401; there are no other entries and no     *)
(* duplicates; every code >= 400 uses the error schema; below 400, 201 is  *)
(* 'Created', 204 'No content' and every other code 'Success'.             *)
(***************************************************************************)
C17_ResponsesOfObservedCodes ==
    epc = "done" =>
        LET observed == IF IsUndefined(controllerInfo) THEN {}
                        ELSE SeqRange(controllerInfo.statusCodes)
            expected == observed \cup (IF route.hasAuth THEN {401} ELSE {})
        IN /\ {responses[i].code : i \in 1..Len(responses)} = expected
           /\ Len(responses) = Cardinality(expected)
           /\ \A i \in 1..Len(responses) :
                IF responses[i].code >= 400
                THEN responses[i].schemaType = "ErrorResponse"
                ELSE responses[i].description =
                        (CASE responses[i].code = 201 -> "Created"
                           [] responses[i].code = 204 -> "No content"
                           [] OTHER -> "Success")

(***************************************************************************)
(* generateExampleFromSchema, the helper of generateSwaggerDocs.           *)
(*                                                                         *)
(* A JavaScript value is a record of its kind and its content: the text of *)
(* a string, the decimal text of a number, "true" or "false", the members  *)
(* of an object by name, the elements of an array.  A schema is a record   *)
(* of the keys it has: type, enum, format, example, items, properties and  *)
(* ref for $ref.  A $ref is the sequence of the prefix                      *)
(* '#/components/schemas/' and a name, or a name alone.                    *)
(***************************************************************************)
JsString(text) == [js |-> "string", val |-> text]
JsNumber(digits) == [js |-> "number", val |-> digits]
JsBoolean(text) == [js |-> "boolean", val |-> text]
JsObject(members) == [js |-> "object", val |-> members]
JsArray(elements) == [js |-> "array", val |-> elements]
EmptyObject == JsObject(<<>>)

\* new Date().toISOString()
IsoNow == JsString("<now>")

RefPrefix == "#/components/schemas/"
SchemaRef(n) == [ref |-> <<RefPrefix, n>>]
BareRef(n) == [ref |-> <<n>>]

\* ref.match(/#\/components\/schemas\/(.+)$/): the name, <<>> for undefined
resolveRef(ref) ==
    IF Len(ref) = 2 /\ ref[1] = RefPrefix THEN <<ref[2]>> ELSE <<>>

\* resolveRef(schemaObj.$ref) || schemaObj.$ref
RefName(ref) == IF resolveRef(ref) # <<>> THEN resolveRef(ref)[1] ELSE ref[1]

\* if (!schemaObj || depth > 8) return {}
DepthLimit == 8

\* enum.slice(0, 3)
SliceLimit == 3
Slice(list) == SubSeq(list, 1, IF Len(list) < SliceLimit THEN Len(list) ELSE SliceLimit)

\* schemaObj.enum && schemaObj.enum.length > 0
HasEnum(schema) == Has(schema, "enum") /\ Len(schema.enum) > 0

\* schemaObj.example ?? fallback
ExampleOr(schema, fallback) == IF Has(schema, "example") THEN schema.example ELSE fallback

TypeOf(schema) == IF Has(schema, "type") THEN schema.type ELSE "undefined"
FormatOf(schema) == IF Has(schema, "format") THEN schema.format ELSE "undefined"

Synthesized(value, deep) == [value |-> value, deep |-> deep]

\* the branch of a schema of type string
StringExample(schema) ==
    IF HasEnum(schema) THEN schema.enum[1]
    ELSE IF FormatOf(schema) = "date-time" THEN IsoNow
    ELSE IF FormatOf(schema) = "uuid" THEN JsString("00000000-0000-0000-0000-000000000000")
    ELSE ExampleOr(schema, JsString("string"))

\* the array branch for items without $ref that need no nested call
PlainItems(itemsSchema) ==
    CASE TypeOf(itemsSchema) = "string" ->
            IF HasEnum(itemsSchema) THEN Slice(itemsSchema.enum)
            ELSE <<ExampleOr(itemsSchema, JsString("string"))>>
      [] TypeOf(itemsSchema) \in {"number", "integer"} ->
            IF HasEnum(itemsSchema) THEN Slice(itemsSchema.enum)
            ELSE <<ExampleOr(itemsSchema, JsNumber("0"))>>
      [] TypeOf(itemsSchema) = "boolean" -> <<ExampleOr(itemsSchema, JsBoolean("true"))>>
      [] OTHER -> <<JsString("string")>>

\* the array branch for items with a resolved $ref, itemEx being the
\* example of the target
ResolvedItems(target, itemEx) ==
    IF TypeOf(target) \in {"string", "number"} /\ HasEnum(target)
    THEN Slice(target.enum)
    ELSE <<itemEx>>

RECURSIVE generateExampleFromSchema(_, _, _)
RECURSIVE ExampleMembers(_, _, _, _)

\* for (const key of Object.keys(props)) obj[key] = generateExampleFromSchema(props[key], depth + 1)
ExampleMembers(props, keys, registry, depth) ==
    IF keys = {} THEN Synthesized(<<>>, depth)
    ELSE The({The({Synthesized(rest.value @@ (key :> r.value), Max(rest.deep, r.deep)) :
                    r \in {generateExampleFromSchema(props[key], registry, depth + 1)}}) :
                key \in {CHOOSE k \in keys : TRUE},
                rest \in {ExampleMembers(props, keys \ {CHOOSE k \in keys : TRUE},
                                         registry, depth)}})

\* The example of a schema; deep is the deepest level at which a schema
\* was examined, a call beyond DepthLimit returning at once.
generateExampleFromSchema(schema, registry, depth) ==
    IF depth > DepthLimit THEN Synthesized(EmptyObject, depth - 1)
    ELSE IF Has(schema, "ref") THEN
        IF RefName(schema.ref) \in DOMAIN registry
        THEN The({Synthesized(r.value, Max(depth, r.deep)) :
                    r \in {generateExampleFromSchema(registry[RefName(schema.ref)],
                                                     registry, depth + 1)}})
        ELSE Synthesized(EmptyObject, depth)
    ELSE IF TypeOf(schema) = "string" THEN Synthesized(StringExample(schema), depth)
    ELSE IF TypeOf(schema) \in {"number", "integer"}
        THEN Synthesized(ExampleOr(schema, JsNumber("0")), depth)
    ELSE IF TypeOf(schema) = "boolean"
        THEN Synthesized(ExampleOr(schema, JsBoolean("true")), depth)
    ELSE IF TypeOf(schema) = "array" THEN
        The({IF Has(itemsSchema, "ref") THEN
                IF RefName(itemsSchema.ref) \in DOMAIN registry
                THEN The({Synthesized(JsArray(ResolvedItems(target, r.value)),
                                      Max(depth, r.deep)) :
                            target \in {registry[RefName(itemsSchema.ref)]},
                            r \in {generateExampleFromSchema(
                                        registry[RefName(itemsSchema.ref)],
                                        registry, depth + 1)}})
                ELSE Synthesized(JsArray(<<JsString("string")>>), depth)
             ELSE IF TypeOf(itemsSchema) = "object" /\ Has(itemsSchema, "properties")
                THEN The({Synthesized(JsArray(<<r.value>>), Max(depth, r.deep)) :
                            r \in {generateExampleFromSchema(itemsSchema, registry,
                                                             depth + 1)}})
             ELSE Synthesized(JsArray(PlainItems(itemsSchema)), depth) :
             itemsSchema \in {IF Has(schema, "items") THEN schema.items ELSE <<>>}})
    ELSE IF TypeOf(schema) = "object" \/ Has(schema, "properties") THEN
        The({Synthesized(JsObject(r.value), r.deep) :
                r \in {ExampleMembers(IF Has(schema, "properties")
                                      THEN schema.properties ELSE <<>>,
                                      IF Has(schema, "properties")
                                      THEN DOMAIN schema.properties ELSE {},
                                      registry, depth)}})
    ELSE Synthesized(EmptyObject, depth)

\* The registries of the model: a type that refers to itself with a string
\* enum and a number enum beside it, a pair of types that refer to each
\* other, and a type that refers to itself twice.
RoleSchema ==
    [type |-> "string",
     enum |-> <<JsString("admin"), JsString("user"), JsString("guest"), JsString("root")>>]
LevelSchema == [type |-> "number", enum |-> <<JsNumber("1"), JsNumber("2")>>]

Registries ==
    {<<>>,
     [User |-> [type |-> "object",
                properties |-> [name |-> [type |-> "string"],
                                manager |-> SchemaRef("User")]],
      Role |-> RoleSchema,
      Level |-> LevelSchema],
     [User |-> [type |-> "object", properties |-> [team |-> SchemaRef("Team")]],
      Team |-> [type |-> "object",
                properties |-> [lead |-> SchemaRef("User"),
                                members |-> [type |-> "array",
                                             items |-> SchemaRef("User")]]]],
     [Tree |-> [type |-> "object",
                properties |-> [left |-> SchemaRef("Tree"),
                                right |-> SchemaRef("Tree"),
                                role |-> SchemaRef("Role")]],
      Role |-> RoleSchema]}

ExampleLeaves ==
    {[type |-> "string"],
     RoleSchema,
     [type |-> "string", format |-> "date-time"],
     [type |-> "string", format |-> "uuid"],
     [type |-> "string", example |-> JsString("a@b.c")],
     [type |-> "number"],
     LevelSchema,
     [type |-> "integer", example |-> JsNumber("5")],
     [type |-> "boolean"],
     [type |-> "object"],
     <<>>,
     BareRef("Role")}
    \cup {SchemaRef(n) : n \in {"User", "Team", "Tree", "Role", "Level"}}

MaxExampleNesting == 1

RECURSIVE ExampleSchemas(_)
ExampleSchemas(nesting) ==
    IF nesting = 0 THEN ExampleLeaves
    ELSE LET below == ExampleSchemas(nesting - 1)
         IN below
            \cup {[type |-> "array"]}
            \cup {[type |-> "array", items |-> s] : s \in below}
            \cup {[type |-> "object", properties |-> [data |-> s]] : s \in below}
            \cup {[properties |-> [id |-> [type |-> "string", format |-> "uuid"],
                                   data |-> s]] : s \in below}

exceptExampleVars == <<earlierVars, cleanVars, endpointVars, driverVars, loaderVars, mountVars>>

InitExample ==
    /\ schemaObj \in ExampleSchemas(MaxExampleNesting)
    /\ extractedSchemas \in Registries
    /\ example = <<>>
    /\ deepest = 0
    /\ xpc = "call"
    /\ EarlierIdle
    /\ CleanIdle
    /\ EndpointIdle
    /\ DriverIdle
    /\ LoaderIdle
    /\ MountIdle

\* content.example = generateExampleFromSchema(schema)
GenerateExample ==
    /\ xpc = "call"
    /\ \E r \in {generateExampleFromSchema(schemaObj, extractedSchemas, 0)} :
        /\ example' = r.value
        /\ deepest' = r.deep
    /\ xpc' = "done"
    /\ UNCHANGED <<schemaObj, extractedSchemas>>
    /\ UNCHANGED exceptExampleVars

NextExample == GenerateExample

SpecExample == InitExample /\ [][NextExample]_vars /\ WF_vars(NextExample)

\* every value of an example: the example, the members and the elements
RECURSIVE ValueNodes(_)
ValueNodes(value) ==
    {value} \cup
    (CASE value.js = "object" ->
            UNION {ValueNodes(value.val[k]) : k \in DOMAIN value.val}
       [] value.js = "array" ->
            UNION {ValueNodes(value.val[i]) : i \in 1..Len(value.val)}
       [] OTHER -> {})

\* a $ref to a name of the registry stands for the schema of that name
Resolved(schema, registry) ==
    IF Has(schema, "ref") /\ RefName(schema.ref) \in DOMAIN registry
    THEN registry[RefName(schema.ref)]
    ELSE schema

ExampleDepthOk == deepest <= DepthLimit

ExampleArraysOk ==
    \A v \in ValueNodes(example) : v.js = "array" => Len(v.val) <= SliceLimit

\* a schema with an enum, directly or behind a $ref, gives the first value
\* of the enum; an array of such items gives the first values
ExampleEnumFirst ==
    /\ HasEnum(Resolved(schemaObj, extractedSchemas)) =>
            example = Resolved(schemaObj, extractedSchemas).enum[1]
    /\ /\ TypeOf(schemaObj) = "array"
       /\ Has(schemaObj, "items")
       /\ HasEnum(Resolved(schemaObj.items, extractedSchemas))
       => /\ example.js = "array"
          /\ Len(example.val) >= 1
          /\ \A i \in 1..Len(example.val) :
                example.val[i] = Resolved(schemaObj.items, extractedSchemas).enum[i]

ExampleRefResolved ==
    Has(schemaObj, "ref") =>
        IF RefName(schemaObj.ref) \in DOMAIN extractedSchemas
        THEN example = generateExampleFromSchema(
                            extractedSchemas[RefName(schemaObj.ref)],
                            extractedSchemas, 1).value
        ELSE example = EmptyObject

(***************************************************************************)
(* C20 as claimed: example synthesis terminates for every schema and       *)
(* registry, cyclic $ref chains included; the walk examines no schema      *)
(* deeper than 8 levels; every array of the example has at most 3          *)
(* elements; an enum gives its first value, or its first values in an      *)
(* array; a $ref is resolved through the registry of named schemas.        *)
(***************************************************************************)
C20_ExampleSynthesis ==
    /\ [](xpc = "done" =>
            /\ ExampleDepthOk
            /\ ExampleArraysOk
            /\ ExampleEnumFirst
            /\ ExampleRefResolved)
    /\ <>(xpc = "done")

(***************************************************************************)
(* swaggerifyRoutes and generateSwaggerDocs.                               *)
(*                                                                         *)
(* The directory of route files is given by what the run finds for each    *)
(* file: whether readFile returns its content, the routes extractRoutes    *)
(* returns for it, and its controller file.  There is no index.ts, so      *)
(* every file is analysed with the base path and two files can register    *)
(* the same path.  No schemasDir is configured.  An endpoint string is the *)
(* record of the parts written into it; eval gives the object it denotes   *)
(* when it is an object literal, and raises when it is not.                *)
(***************************************************************************)
fUsers == <<"u", "s", "e", "r", "s">>
fAdmin == <<"a", "d", "m", "i", "n">>
FileNames == {fUsers, fAdmin}

\* const { email: userEmail } = req.body: the name of the field is the
\* whole piece between the commas
nRenamed == nEmail \o <<":", " ", "u", "s", "e", "r", "E", "m", "a", "i", "l">>

DriverRoute(method, path, handler) ==
    [method |-> method, path |-> path, controllerMethod |-> handler,
     validatorSchema |-> <<>>, hasAuth |-> FALSE, joiDefault |-> "none"]

\* A route with validate(authSchemas.register); joiDefault is a ghost:
\* the Joi schema loaded for it has a BigInt default value.
BigIntDefaultRoute ==
    [method |-> "POST", path |-> <<"/", "api", "/", "register">>,
     controllerMethod |-> <<"register">>,
     validatorSchema |-> <<"authSchemas", "register">>, hasAuth |-> FALSE,
     joiDefault |-> "bigint"]

\* JSON.stringify(joiSchemaObj.schema, null, 12) raises a TypeError
StringifyThrows(r) == r.validatorSchema # <<>> /\ r.joiDefault = "bigint"

DriverRoutes ==
    {DriverRoute("GET", <<"/", "api", "/", "user", "s">>, <<"list", "user", "s">>),
     DriverRoute("GET", <<"/", "api", "/", "user", "s">>, <<"get", "user", "s">>),
     DriverRoute("POST", <<"/", "api", "/", "login">>, <<"login">>),
     BigIntDefaultRoute}

MaxRoutes == 2

\* the routes of a file: up to MaxRoutes different routes in some order
RouteLists ==
    {rs \in UNION {[1..n -> DriverRoutes] : n \in 0..MaxRoutes} :
        \A i, j \in 1..Len(rs) : rs[i] = rs[j] => i = j}

\* the controller file: none found, one readFile raises for, one whose
\* handlers destructure { email }, one whose handlers destructure
\* { email: userEmail }
ControllerKinds == {"none", "unreadable", "plain", "renamed"}

RouteFileOptions ==
    {[readable |-> FALSE, routes |-> <<>>, controller |-> "none"]}
    \cup {[readable |-> TRUE, routes |-> rs, controller |-> c] :
            rs \in RouteLists, c \in ControllerKinds}

\* analyzeControllerMethod(controllerContent, route.controllerMethod, ...):
\* the type of a field is what inferFieldType gives for its name; the
\* call has no argument for the fieldTypeInference option.
ControllerAnalysis(kind) ==
    CASE kind = "plain" -> Analysis(<<200>>, <<Field(nEmail, InferFieldType(nEmail, <<>>, 1))>>)
      [] kind = "renamed" ->
            Analysis(<<200>>, <<Field(nRenamed, InferFieldType(nRenamed, <<>>, 1))>>)
      [] OTHER -> <<>>

\* routeFileName.replace('.ts', '').replace(/^\w/, c => c.toUpperCase())
TagOf(routeFileName) == <<ToUpper(routeFileName[1])>> \o Tail(routeFileName)

EndpointCodes(r, info) ==
    LET statusCodeList == IF IsUndefined(info) THEN <<200, 400, 500>>
                          ELSE info.statusCodes
    IN IF r.hasAuth /\ ~SeqIncludes(statusCodeList, 401)
       THEN Append(statusCodeList, 401)
       ELSE statusCodeList

\* noAuth: ${!route.hasAuth}
NoAuth(r) == ~r.hasAuth

\* The endpoint string: method, path, operationId, tags, the request body
\* of a POST, PUT or PATCH with the lines of allFields, the responses of
\* the sorted codes, noAuth.  body is <<>> when no request body is written.
generateSwaggerEndpoint(r, info, routeFileName) ==
    [method |-> r.method,
     path |-> r.path,
     operationId |-> r.controllerMethod,
     tags |-> <<TagOf(routeFileName)>>,
     body |-> IF r.method \in BodyMethods THEN <<AllFields(r, info, TRUE)>> ELSE <<>>,
     responses |-> LET sorted == SortCodes(EndpointCodes(r, info))
                   IN [i \in 1..Len(sorted) |->
                        [code |-> sorted[i],
                         description |-> ResponseDescription(sorted[i]),
                         schemaType |-> ResponseSchemaType(sorted[i])]],
     noAuth |-> NoAuth(r)]

\* name: { type: ..., description: ... } is a property of an object
\* literal when name is an identifier
IsPropertyName(name) ==
    /\ name # <<>>
    /\ \A i \in 1..Len(name) : name[i] \notin {":", " ", "=", ".", "[", "]"}

\* eval(`(${endpointStr})`) returns
Evaluates(endpointStr) ==
    \A b \in 1..Len(endpointStr.body) :
        \A i \in 1..Len(endpointStr.body[b]) : IsPropertyName(endpointStr.body[b][i].name)

\* the schema written for allFields: properties, and required when there
\* is a field
FieldsSchema(allFields) ==
    LET properties ==
            [name \in {allFields[i].name : i \in 1..Len(allFields)} |->
                LET f == allFields[CHOOSE i \in 1..Len(allFields) : allFields[i].name = name]
                IN [type |-> f.type, description |-> f.description]]
        req == SelectSeq(allFields, LAMBDA f : f.required)
    IN IF allFields = <<>>
       THEN [type |-> "object", properties |-> properties]
       ELSE [type |-> "object", properties |-> properties,
             required |-> [i \in 1..Len(req) |-> req[i].name]]

\* the object eval returns for an endpoint string that evaluates
EvalEndpoint(endpointStr) ==
    [method |-> endpointStr.method,
     path |-> endpointStr.path,
     operationId |-> endpointStr.operationId,
     tags |-> endpointStr.tags,
     requestBody |-> [b \in 1..Len(endpointStr.body) |->
                        [schema |-> FieldsSchema(endpointStr.body[b])]],
     responses |-> [code \in {endpointStr.responses[i].code :
                                i \in 1..Len(endpointStr.responses)} |->
                        LET e == endpointStr.responses[
                                    CHOOSE i \in 1..Len(endpointStr.responses) :
                                        endpointStr.responses[i].code = code]
                        IN [description |-> e.description,
                            schema |-> SchemaRef(e.schemaType)]],
     noAuth |-> endpointStr.noAuth]

\* The iteration as it would be with allEndpoints.push(endpointStr) in
\* the loop over the routes: the endpoints generated before the exception
\* stay.
FileEndpointsUpToThrow(dir, fileName) ==
    LET file == dir[fileName]
        ok == {n \in 0..Len(file.routes) : \A i \in 1..n : ~StringifyThrows(file.routes[i])}
    IN IF ~file.readable THEN <<>>
       ELSE IF file.routes = <<>> THEN <<>>
       ELSE IF file.controller = "unreadable" THEN <<>>
       ELSE [i \in 1..(CHOOSE n \in ok : \A m \in ok : m <= n) |->
                generateSwaggerEndpoint(file.routes[i],
                                        ControllerAnalysis(file.controller), fileName)]

\* One iteration of the for-loop over routeFiles: the endpoint strings the
\* file adds to allEndpoints.  An exception of readFile, for the route
\* file or for its controller file, or of generateSwaggerEndpoint for one
\* of the routes, is caught by the catch of the iteration, and the file
\* adds nothing: the endpoints of the file are pushed after the loop
\* over its routes.
FileEndpoints(dir, fileName) ==
    LET file == dir[fileName]
    IN IF ~file.readable THEN <<>>
       ELSE IF file.routes = <<>> THEN <<>>
       ELSE IF file.controller = "unreadable" THEN <<>>
       ELSE IF \E i \in 1..Len(file.routes) : StringifyThrows(file.routes[i]) THEN <<>>
       ELSE [i \in 1..Len(file.routes) |->
                generateSwaggerEndpoint(file.routes[i],
                                        ControllerAnalysis(file.controller), fileName)]

\* the file names in an order glob can return them in
Orders(names) ==
    {order \in [1..Cardinality(names) -> names] : SeqRange(order) = names}

\* if (!endpoint.noAuth) pathItem.security = [{ bearerAuth: [] }]
Security(noAuth) == IF noAuth THEN <<>> ELSE <<"bearerAuth">>

\* pathItem
PathItem(endpoint) ==
    [operationId |-> endpoint.operationId,
     tags |-> endpoint.tags,
     requestBody |-> endpoint.requestBody,
     responses |-> endpoint.responses,
     security |-> Security(endpoint.noAuth)]

\* paths[path][method] = pathItem
SetOperation(doc, endpoint) ==
    [p \in DOMAIN doc \cup {endpoint.path} |->
        IF p = endpoint.path
        THEN (MethodLower(endpoint.method) :> PathItem(endpoint))
             @@ (IF p \in DOMAIN doc THEN doc[p] ELSE <<>>)
        ELSE doc[p]]

\* endpoints.forEach(endpoint => ...)
RECURSIVE SetOperations(_, _, _)
SetOperations(doc, endpoints, i) ==
    IF i > Len(endpoints) THEN doc
    ELSE SetOperations(SetOperation(doc, endpoints[i]), endpoints, i + 1)

\* reqContent.example = generateExampleFromSchema(reqSchema) for a request
\* schema that is no $ref; the response schemas are $refs to names that
\* the empty registry does not have and get no example
WithExamples(doc, registry) ==
    [p \in DOMAIN doc |->
        [m \in DOMAIN doc[p] |->
            [doc[p][m] EXCEPT !.requestBody =
                [b \in 1..Len(@) |->
                    [schema |-> @[b].schema,
                     example |-> generateExampleFromSchema(@[b].schema, registry, 0).value]]]]]

\* the paths of the document generateSwaggerDocs returns
SwaggerDocs(endpoints) == WithExamples(SetOperations(<<>>, endpoints, 1), <<>>)

RECURSIVE CollectEndpoints(_, _, _)
CollectEndpoints(dir, order, i) ==
    IF i > Len(order) THEN <<>>
    ELSE FileEndpoints(dir, order[i]) \o CollectEndpoints(dir, order, i + 1)

EvalAll(strings) == [i \in 1..Len(strings) |-> EvalEndpoint(strings[i])]

\* the paths of the document of a run that finds the files in this order
DocumentOf(dir, order) == SwaggerDocs(EvalAll(CollectEndpoints(dir, order, 1)))

exceptDriverVars == <<earlierVars, cleanVars, endpointVars, exampleVars, loaderVars, mountVars>>

InitDriver ==
    /\ routesDir \in UNION {[names -> RouteFileOptions] : names \in SUBSET FileNames}
    /\ routeFiles = <<>>
    /\ fileIdx = 1
    /\ allEndpoints = <<>>
    /\ endpointObjects = <<>>
    /\ paths = <<>>
    /\ dpc = "glob"
    /\ fieldTypeInference \in BOOLEAN
    /\ EarlierIdle
    /\ CleanIdle
    /\ EndpointIdle
    /\ ExampleIdle
    /\ LoaderIdle
    /\ MountIdle

\* const routeFiles = await glob(...); if (routeFiles.length === 0) return []
Glob ==
    /\ dpc = "glob"
    /\ routeFiles' \in Orders(DOMAIN routesDir)
    /\ dpc' = IF DOMAIN routesDir = {} THEN "returned" ELSE "files"
    /\ UNCHANGED <<routesDir, fileIdx, allEndpoints, endpointObjects, paths, fieldTypeInference>>
    /\ UNCHANGED exceptDriverVars

\* for (const routeFile of routeFiles) { try { ... } catch (error) { ... } }
ProcessFile ==
    /\ dpc = "files"
    /\ allEndpoints' = allEndpoints \o FileEndpoints(routesDir, routeFiles[fileIdx])
    /\ fileIdx' = fileIdx + 1
    /\ dpc' = IF fileIdx = Len(routeFiles) THEN "eval" ELSE "files"
    /\ UNCHANGED <<routesDir, routeFiles, endpointObjects, paths, fieldTypeInference>>
    /\ UNCHANGED exceptDriverVars

\* allEndpoints.map(endpointStr => eval(`(${endpointStr})`)), outside every
\* try: the exception of one eval leaves swaggerifyRoutes
EvalEndpoints ==
    /\ dpc = "eval"
    /\ IF \A i \in 1..Len(allEndpoints) : Evaluates(allEndpoints[i])
       THEN /\ endpointObjects' = EvalAll(allEndpoints)
            /\ dpc' = "returned"
       ELSE /\ endpointObjects' = endpointObjects
            /\ dpc' = "rejected"
    /\ UNCHANGED <<routesDir, routeFiles, fileIdx, allEndpoints, paths, fieldTypeInference>>
    /\ UNCHANGED exceptDriverVars

\* generateSwaggerDocs(endpoints, options)
GenerateSwaggerDocs ==
    /\ dpc = "returned"
    /\ paths' = SwaggerDocs(endpointObjects)
    /\ dpc' = "done"
    /\ UNCHANGED <<routesDir, routeFiles, fileIdx, allEndpoints, endpointObjects,
                   fieldTypeInference>>
    /\ UNCHANGED exceptDriverVars

NextDriver == Glob \/ ProcessFile \/ EvalEndpoints \/ GenerateSwaggerDocs

SpecDriver == InitDriver /\ [][NextDriver]_vars /\ WF_vars(NextDriver)

\* the operations of a document: path, method and path item
Operations(doc) == UNION {{<<p, m, doc[p][m]>> : m \in DOMAIN doc[p]} : p \in DOMAIN doc}

\* the registrations of a (method, path) the run has endpoints for
Registrations(dir) ==
    {<<f, i>> \in {<<f, i>> : f \in DOMAIN dir, i \in 1..MaxRoutes} :
        /\ i <= Len(dir[f].routes)
        /\ FileEndpoints(dir, f) # <<>>}

SharedRegistration(dir) ==
    \E a \in Registrations(dir), b \in Registrations(dir) :
        /\ a[1] # b[1]
        /\ dir[a[1]].routes[a[2]].method = dir[b[1]].routes[b[2]].method
        /\ dir[a[1]].routes[a[2]].path = dir[b[1]].routes[b[2]].path

(***************************************************************************)
(* C18 as claimed: the document holds at most one operation for a method   *)
(* and path, and the operations it holds are the same whatever order the   *)
(* route files are enumerated in: the run over the same directory in any   *)
(* other order gives the same paths.                                       *)
(***************************************************************************)
C18_SurvivorIndependentOfFileOrder ==
    dpc = "done" =>
        /\ \A a \in Operations(paths), b \in Operations(paths) :
                a[1] = b[1] /\ a[2] = b[2] => a = b
        /\ \A order \in Orders(DOMAIN routesDir) : DocumentOf(routesDir, order) = paths

\* the endpoints of the files and routes analysed without error
AnalysedEndpoints(dir) ==
    {EvalEndpoint(FileEndpoints(dir, f)[i]) :
        <<f, i>> \in {r \in Registrations(dir) : Evaluates(FileEndpoints(dir, r[1])[r[2]])}}

(***************************************************************************)
(* C19 as claimed: no exception of the analysis of a file or endpoint      *)
(* ends the run: swaggerifyRoutes never leaves with an exception, and      *)
(* what it returns has the endpoints of every file and endpoint that was   *)
(* analysed without error.                                                 *)
(***************************************************************************)
C19_RunSurvivesFailures ==
    /\ dpc # "rejected"
    /\ dpc \in {"returned", "done"} =>
            AnalysedEndpoints(routesDir) \subseteq SeqRange(endpointObjects)

\* ---------------------------------------------------------------------
\* Concurrent calls of loadJoiSchemaFromValidator: the search for the
\* validator file and the registration of the ts-node runtime.
\* ---------------------------------------------------------------------

\* how many calls are in progress at once
MaxCalls == 2

\* the places a validator file is looked for in
InConfiguredDir == "validatorsDir/<group without Schemas>.ts"
InConfiguredDirLower == "validatorsDir/<group lower-cased, without schemas>.ts"
InLegacyDir == "src/validators/<group without Schemas>.ts"
InRouteParentDir == "<routeDir>/../validators/<group without Schemas>.ts"
InRouteGrandparentDir == "<routeDir>/../../validators/<group without Schemas>.ts"
InRouteDir == "<routeDir>/validators/<group without Schemas>.ts"

\* validatorFile while it is null
NoFile == "null"

RouteRelativeFiles == <<InRouteParentDir, InRouteGrandparentDir, InRouteDir>>

AllValidatorFiles ==
    {InConfiguredDir, InConfiguredDirLower, InLegacyDir} \cup SeqRange(RouteRelativeFiles)

\* the order the spec gives: configured directory, locations relative to
\* the route file, legacy fallback
RouteRelativeBeforeLegacy(hasRouteFilePath) ==
    <<InConfiguredDir, InConfiguredDirLower>>
    \o (IF hasRouteFilePath THEN RouteRelativeFiles ELSE <<>>)
    \o <<InLegacyDir>>

\* possibleValidatorFiles, with the push of the route-relative locations
possibleValidatorFiles(hasRouteFilePath) ==
    <<InConfiguredDir, InConfiguredDirLower, InLegacyDir>>
    \o (IF hasRouteFilePath THEN RouteRelativeFiles ELSE <<>>)

\* for (const file of possibleValidatorFiles) if (await fs.pathExists(file))
FirstExisting(files, existing) ==
    IF \E i \in 1..Len(files) : files[i] \in existing
    THEN files[CHOOSE i \in 1..Len(files) :
                    /\ files[i] \in existing
                    /\ \A j \in 1..(i - 1) : files[j] \notin existing]
    ELSE NoFile

CallIds == 1..MaxCalls

InitLoader ==
    /\ existingFiles \in SUBSET AllValidatorFiles
    /\ tsNodeAvailable \in BOOLEAN
    /\ calls \in [CallIds -> {[pc |-> "find", hasRouteFilePath |-> h,
                               validatorFile |-> NoFile, registered |-> FALSE,
                               result |-> "none"] : h \in BOOLEAN}]
    /\ tsNodeRegistered = FALSE
    /\ registrations = 0
    /\ EarlierIdle
    /\ CleanIdle
    /\ EndpointIdle
    /\ ExampleIdle
    /\ DriverIdle
    /\ MountIdle

exceptLoaderVars == <<earlierVars, cleanVars, endpointVars, exampleVars, driverVars, mountVars>>

\* The loop over possibleValidatorFiles: the call is suspended at the
\* awaits of fs.pathExists until one answers true or the list ends.
FindValidatorFile(c) ==
    /\ calls[c].pc = "find"
    /\ calls' = [calls EXCEPT
                    ![c].validatorFile =
                        FirstExisting(possibleValidatorFiles(calls[c].hasRouteFilePath),
                                      existingFiles),
                    ![c].pc = "found"]
    /\ UNCHANGED <<existingFiles, tsNodeAvailable, tsNodeRegistered, registrations>>
    /\ UNCHANGED exceptLoaderVars

\* The stretch from the end of the search to the next await: no file
\* returns null, a failing require('ts-node') returns null, a set
\* __tsNodeRegistered skips the registration and the call runs to its
\* end, a clear one suspends the call at await fs.pathExists(tsConfigPath).
EnterGate(c) ==
    /\ calls[c].pc = "found"
    /\ calls' = [calls EXCEPT
                    ![c].pc = IF /\ calls[c].validatorFile # NoFile
                                 /\ tsNodeAvailable
                                 /\ ~tsNodeRegistered
                              THEN "tsconfig" ELSE "done",
                    ![c].result = IF calls[c].validatorFile = NoFile THEN "no file"
                                  ELSE IF ~tsNodeAvailable THEN "no ts-node"
                                  ELSE IF tsNodeRegistered THEN "skipped"
                                  ELSE "none"]
    /\ UNCHANGED <<existingFiles, tsNodeAvailable, tsNodeRegistered, registrations>>
    /\ UNCHANGED exceptLoaderVars

\* tsNode.register(...) returns and __tsNodeRegistered is set; the rest
\* of the call has no await.
Register(c) ==
    /\ calls[c].pc = "tsconfig"
    /\ registrations < MaxCalls
    /\ tsNodeRegistered' = TRUE
    /\ registrations' = registrations + 1
    /\ calls' = [calls EXCEPT ![c].pc = "done", ![c].registered = TRUE,
                              ![c].result = "registered"]
    /\ UNCHANGED <<existingFiles, tsNodeAvailable>>
    /\ UNCHANGED exceptLoaderVars

\* tsNode.register(...) throws: the catch leaves the flag alone.
RegisterThrows(c) ==
    /\ calls[c].pc = "tsconfig"
    /\ calls' = [calls EXCEPT ![c].pc = "done", ![c].result = "register threw"]
    /\ UNCHANGED <<existingFiles, tsNodeAvailable, tsNodeRegistered, registrations>>
    /\ UNCHANGED exceptLoaderVars

NextLoader ==
    \E c \in CallIds :
        \/ FindValidatorFile(c)
        \/ EnterGate(c)
        \/ Register(c)
        \/ RegisterThrows(c)

SpecLoader == InitLoader /\ [][NextLoader]_vars

\* C21: the ts-node runtime is registered at most once in a process:
\* no two calls both perform the registration, whatever the interleaving.
C21_RegisteredAtMostOnce ==
    /\ registrations <= 1
    /\ \A c, d \in DOMAIN calls :
            calls[c].registered /\ calls[d].registered => c = d

\* C24: the validator file of a call is the first existing candidate in
\* the order configured directory, configured directory with the
\* lower-cased name, legacy src/validators, then, when the path of the
\* route file is given, the validators directories next to the parent of
\* the route directory, next to its grandparent, and inside it.
Precedence ==
    <<InConfiguredDir, InConfiguredDirLower, InLegacyDir,
      InRouteParentDir, InRouteGrandparentDir, InRouteDir>>

Searched(call) ==
    {f \in AllValidatorFiles :
        f \in SeqRange(RouteRelativeFiles) => call.hasRouteFilePath}

C24_FirstExistingCandidate ==
    \A c \in DOMAIN calls :
        calls[c].pc # "find" =>
            LET found == Searched(calls[c]) \cap existingFiles
                file == calls[c].validatorFile
            IN IF found = {} THEN file = NoFile
               ELSE /\ file \in found
                    /\ \A i, j \in 1..Len(Precedence) :
                            Precedence[i] \in found /\ Precedence[j] = file => j <= i

C24_Witness ==
    \E c \in DOMAIN calls :
        /\ calls[c].pc = "done"
        /\ calls[c].hasRouteFilePath
        /\ calls[c].validatorFile = InLegacyDir
        /\ InRouteDir \in existingFiles

\* C24 as the spec words it: the locations relative to the route file
\* come before the legacy fallback.
C24_RouteRelativeBeforeLegacy ==
    \A c \in DOMAIN calls :
        calls[c].pc # "find" =>
            calls[c].validatorFile =
                FirstExisting(<<InConfiguredDir, InConfiguredDirLower,
                                InRouteParentDir, InRouteGrandparentDir, InRouteDir,
                                InLegacyDir>>,
                              Searched(calls[c]) \cap existingFiles)

\* C23: the member that is converted is the one under the group name
\* when there is one, otherwise the direct top-level export of that name
\* when there is one, otherwise the one under the group name without
\* 'Schemas'.
LookedUp == epc \in {"convert", "body", "responses", "done"} /\ ~IsUndefined(joiSchema)

C23_LookupOrder ==
    LookedUp =>
        LET module == validatorModule
            group == route.validatorSchema[1]
            name == route.validatorSchema[Len(route.validatorSchema)]
            underGroup == Member(module, group, name)
            underStripped == Member(module, WithoutSchemas(group), name)
        IN IF ~IsUndefined(underGroup) THEN joiSchema = underGroup
           ELSE IF name \in DOMAIN module THEN joiSchema = module[name]
           ELSE joiSchema = underStripped

C23_Witness ==
    /\ LookedUp
    /\ "authSchemas" \notin DOMAIN validatorModule
    /\ joiSchema = JoiAt("register")
    /\ ~IsUndefined(Member(validatorModule, "auth", "register"))

\* C23 as the spec words it: the group name without 'Schemas' comes
\* before the direct export.
C23_DirectExportLast ==
    LookedUp =>
        LET module == validatorModule
            group == route.validatorSchema[1]
            name == route.validatorSchema[Len(route.validatorSchema)]
            underGroup == Member(module, group, name)
            underStripped == Member(module, WithoutSchemas(group), name)
        IN IF ~IsUndefined(underGroup) THEN joiSchema = underGroup
           ELSE IF ~IsUndefined(underStripped) THEN joiSchema = underStripped
           ELSE joiSchema = module[name]

\* C28: generateSwaggerEndpoint leaves its inputs as they were: the
\* route, and the status codes and request fields of the controller
\* analysis, are the same after every step of the call.
C28_InputsUnchanged ==
    [][/\ route' = route
       /\ controllerInfo' = controllerInfo]_vars

\* C27: cleanJsonSchema is idempotent: cleaning a schema that has been
\* cleaned gives the same schema again.
C27_CleanIdempotent ==
    kpc = "done" => cleanJsonSchema(cleaned) = cleaned

C27_Witness ==
    /\ kpc = "done"
    /\ cleaned # rawSchema
    /\ Has(cleaned, "properties")
    /\ Has(cleaned.properties.field, "nullable")
    /\ cleanJsonSchema(cleaned) = cleaned

\* C22: with the fieldTypeInference option disabled, a request field
\* found by the controller analysis is not given a heuristic kind: it is
\* written as a plain string.
AnalysedFieldNames(fileName) ==
    LET info == ControllerAnalysis(routesDir[fileName].controller)
    IN IF IsUndefined(info) THEN {}
       ELSE {info.requestBodyFields[i].name : i \in 1..Len(info.requestBodyFields)}

C22_InferenceDisabled ==
    (dpc \in {"eval", "returned", "done"} /\ ~fieldTypeInference) =>
        \A i \in 1..Len(allEndpoints) :
            \A fileName \in DOMAIN routesDir :
                allEndpoints[i].tags = <<TagOf(fileName)>> =>
                    \A b \in 1..Len(allEndpoints[i].body) :
                        \A k \in 1..Len(allEndpoints[i].body[b]) :
                            LET field == allEndpoints[i].body[b][k]
                            IN field.name \in AnalysedFieldNames(fileName) =>
                                    /\ field.type = "string"
                                    /\ field.description = "string"

\* C29: a route file adds to allEndpoints one endpoint for each of its
\* routes, in the order of the routes, or nothing; it adds nothing when
\* the generation of one of its endpoints throws; and what the files
\* before it added stays as it is.
Processed == IF dpc = "files" THEN fileIdx - 1
             ELSE IF dpc = "glob" THEN 0 ELSE Len(routeFiles)

\* the endpoints of allEndpoints that carry the tag of the file
EndpointsOf(fileName) ==
    SelectSeq(allEndpoints, LAMBDA e : e.tags = <<TagOf(fileName)>>)

AllOrNothing(fileName) ==
    LET fileRoutes == routesDir[fileName].routes
        added == EndpointsOf(fileName)
    IN /\ \/ added = <<>>
          \/ /\ Len(added) = Len(fileRoutes)
             /\ \A i \in 1..Len(fileRoutes) :
                    /\ added[i].method = fileRoutes[i].method
                    /\ added[i].path = fileRoutes[i].path
                    /\ added[i].operationId = fileRoutes[i].controllerMethod
       /\ (\E i \in 1..Len(fileRoutes) : StringifyThrows(fileRoutes[i])) => added = <<>>

C29_FileAllOrNothing ==
    /\ [](\A k \in 1..Len(routeFiles) :
            IF k <= Processed THEN AllOrNothing(routeFiles[k])
            ELSE EndpointsOf(routeFiles[k]) = <<>>)
    /\ [][/\ Len(allEndpoints') >= Len(allEndpoints)
          /\ SubSeq(allEndpoints', 1, Len(allEndpoints)) = allEndpoints]_vars

C29_Witness ==
    /\ dpc = "eval"
    /\ Len(routeFiles) = 2
    /\ Len(routesDir[routeFiles[2]].routes) = 2
    /\ ~StringifyThrows(routesDir[routeFiles[2]].routes[1])
    /\ StringifyThrows(routesDir[routeFiles[2]].routes[2])
    /\ routesDir[routeFiles[2]].controller = "plain"
    /\ Len(allEndpoints) = 2
    /\ EndpointsOf(routeFiles[1]) = allEndpoints

\* C30: the operation of a route has a security requirement exactly when
\* the route is marked as requiring authentication; the route is marked
\* so exactly when its middleware list holds authenticate or
\* requireAdmin; and the status codes of a marked route include 401,
\* whatever the controller analysis found.
AuthMarkers == {<<"authenticate">>, <<"requireAdmin">>}

ExtractedOnReference(n) ==
    {i \in 1..Len(requests) : requests[i].name = n /\ requests[i].how = "extracted"}

ExtractedInPass(n) ==
    {k \in 1..(declIdx - 1) : typeDecls[k].name = n}

C25_ExtractedAtMostOnce ==
    \A n \in {typeDecls[k].name : k \in 1..Len(typeDecls)} :
        Cardinality(ExtractedOnReference(n)) + Cardinality(ExtractedInPass(n)) <= 1

\* the same for files that declare every name once
C25_DeclaredOnce ==
    (\A j, k \in 1..Len(typeDecls) : typeDecls[j].name = typeDecls[k].name => j = k)
        => C25_ExtractedAtMostOnce

\* ---------------------------------------------------------------------
\* parseRouterMounts and the base path swaggerifyRoutes uses for a route
\* file.  Texts are sequences of characters.
\* ---------------------------------------------------------------------

\* how many router.use statements index.ts has
MaxMounts == 2

ApiBase == <<"/", "a", "p", "i">>

\* router.use('<prefix>', <name>Routes): module is a ghost, the name of
\* the route file the variable <name>Routes is imported from
MountStmt(prefix, name) == [prefix |-> prefix, module |-> name]

mAuth == <<"a", "u", "t", "h">>
mUser == <<"u", "s", "e", "r">>
mUsers == <<"u", "s", "e", "r", "s">>
mApiKeys == <<"a", "p", "i", "K", "e", "y", "s">>
mDocs == <<"d", "o", "c", "s">>
mOrders == <<"o", "r", "d", "e", "r", "s">>

MountStmts ==
    {MountStmt(<<"/">> \o mAuth, mAuth),
     MountStmt(<<"/">> \o mUsers, mUser),
     MountStmt(<<"/", "a", "p", "i", "-", "k", "e", "y", "s">>, mApiKeys),
     MountStmt(<<"/", "v", "2", "/">> \o mOrders, mOrders)}

MountedFiles == {mAuth, mUser, mUsers, mApiKeys, mDocs, mOrders}

\* index.ts: absent, one readFile raises for, or a list of mounts
IndexFiles ==
    {[exists |-> FALSE, readable |-> FALSE, mounts |-> <<>>],
     [exists |-> TRUE, readable |-> FALSE, mounts |-> <<>>]}
    \cup {[exists |-> TRUE, readable |-> TRUE, mounts |-> ms] :
            ms \in UNION {[1..n -> MountStmts] : n \in 0..MaxMounts}}

\* commonRoutes
commonRoutes ==
    {mAuth, mUsers, <<"p", "a", "y", "m", "e", "n", "t", "s">>,
     <<"t", "r", "a", "n", "s", "a", "c", "t", "i", "o", "n", "s">>,
     <<"h", "e", "a", "l", "t", "h">>, mDocs, <<"t", "e", "s", "t">>}

\* routeName = mountPath.substring(1)
KeyOfMount(stmt) == Tail(stmt.prefix)

\* the while loop over the matches: routerMounts.set(routeName, fullPath)
RECURSIVE SetMounts(_, _, _, _)
SetMounts(map, mounts, i, base) ==
    IF i > Len(mounts) THEN map
    ELSE SetMounts((KeyOfMount(mounts[i]) :> (base \o mounts[i].prefix)) @@ map,
                   mounts, i + 1, base)

\* parseRouterMounts(routesDir, basePath)
parseRouterMounts(index, base) ==
    IF ~index.exists THEN <<>>
    ELSE IF ~index.readable THEN <<>>
    ELSE LET found == SetMounts(<<>>, index.mounts, 1, base)
         IN IF DOMAIN found = {}
            THEN [routeName \in commonRoutes |-> base \o <<"/">> \o routeName]
            ELSE found

\* fileName.replace(/([a-z0-9])([A-Z])/g, '$1-$2').toLowerCase()
RECURSIVE Hyphenated(_, _)
Hyphenated(name, i) ==
    IF i > Len(name) THEN <<>>
    ELSE IF /\ i < Len(name)
            /\ name[i] \in SeqRange(LowerLetters) \cup {"0", "1", "2", "3", "4", "5", "6", "7", "8", "9"}
            /\ name[i + 1] \in SeqRange(UpperLetters)
    THEN <<name[i], "-">> \o Hyphenated(name, i + 1)
    ELSE <<name[i]>> \o Hyphenated(name, i + 1)

kebabFileName(fileName) == LowerAll(Hyphenated(fileName, 1))

\* routerMounts.get(fileName) || routerMounts.get(kebabFileName) || basePath
RouteBasePath(map, fileName, base) ==
    IF fileName \in DOMAIN map THEN map[fileName]
    ELSE IF kebabFileName(fileName) \in DOMAIN map THEN map[kebabFileName(fileName)]
    ELSE base

exceptMountVars == <<earlierVars, cleanVars, endpointVars, exampleVars, driverVars, loaderVars>>

InitMounts ==
    /\ indexFile \in IndexFiles
    /\ mountFile \in MountedFiles
    /\ routerMounts = <<>>
    /\ routeBasePath = <<>>
    /\ mpc = "parse"
    /\ EarlierIdle
    /\ CleanIdle
    /\ EndpointIdle
    /\ ExampleIdle
    /\ DriverIdle
    /\ LoaderIdle

\* const routerMounts = await parseRouterMounts(routesDir, basePath)
ParseRouterMounts ==
    /\ mpc = "parse"
    /\ routerMounts' = parseRouterMounts(indexFile, ApiBase)
    /\ mpc' = "file"
    /\ UNCHANGED <<indexFile, mountFile, routeBasePath>>
    /\ UNCHANGED exceptMountVars

\* const routeBasePath = ... for the route file of the iteration
UseBasePath ==
    /\ mpc = "file"
    /\ routeBasePath' = RouteBasePath(routerMounts, mountFile, ApiBase)
    /\ mpc' = "done"
    /\ UNCHANGED <<indexFile, mountFile, routerMounts>>
    /\ UNCHANGED exceptMountVars

NextMounts == ParseRouterMounts \/ UseBasePath

SpecMounts == InitMounts /\ [][NextMounts]_vars

\* C26: a route file the index mounts with router.use('<prefix>',
\* <name>Routes) gets basePath + prefix; without an index file every file
\* gets the default base path; with an index file without mounts the
\* files of the fallback table get basePath + '/' + name and the others
\* the default base path.
C26_EffectiveBasePath ==
    mpc = "done" =>
        IF ~indexFile.exists THEN routeBasePath = ApiBase
        ELSE IF ~indexFile.readable THEN TRUE
        ELSE IF indexFile.mounts = <<>>
        THEN routeBasePath = IF mountFile \in commonRoutes
                             THEN ApiBase \o <<"/">> \o mountFile
                             ELSE ApiBase
        ELSE \A k \in 1..Len(indexFile.mounts) :
                indexFile.mounts[k].module = mountFile =>
                    routeBasePath = ApiBase \o indexFile.mounts[k].prefix

====
